---------------------------- MODULE Spec2Model ----------------------------
(***************************************************************************)
(* VNLS-PRESS: the fetch-news, generate-recommendations and bert_search    *)
(* edge functions over the news_articles and user_activities tables, and   *)
(* the SearchBar, NewsCard and NewsFeed components of the client.          *)
(*                                                                         *)
(* Time is counted in whole hours; the time a card is on screen in half    *)
(* seconds.  A JS Map is a sequence of <<key, value>> entries in insertion *)
(* order; an array is a sequence; a string that the code takes apart is    *)
(* the sequence of its pieces.  A similarity is counted in hundredths.  A  *)
(* request handler is one action; its backend calls are logged, in order,  *)
(* in the request's "calls" field.  An event handler of a component is one *)
(* action; fetchArticles and fetchRecommendations are one action up to     *)
(* their await and one for the rest.                                       *)
(***************************************************************************)
EXTENDS Integers, Sequences, FiniteSets, TLC

VARIABLES
    now,              \* the wall clock, in hours
    news_articles,    \* table: rows in physical order
    user_activities,  \* table: rows in physical order
    rec,              \* generate-recommendations: per request, locals and response
    search,           \* bert_search: the request, its locals and its response
    fetch,            \* fetch-news: the request, its locals and its response
    bar,              \* SearchBar: the component's state and the calls it made
    card,             \* NewsCard: the component's state and its effect's closure
    feed              \* NewsFeed: the component's state and its requests in flight

vars == <<now, news_articles, user_activities, rec, search, fetch, bar, card, feed>>

-----------------------------------------------------------------------------
(* Bounds of the model *)

Clock0 == 1000
MaxActs == 2
MaxArticles == 2
MaxBulk == 104
MaxEmbedded == 4
MaxFetched == 4
MaxInFlight == 2
MaxRows == 3
MaxShown == 5
MaxTicks == 1

-----------------------------------------------------------------------------
(* Values *)

Users == {"u1", "u2"}
Reqs == {1, 2}
NoUser == "null"

Kinds == {"view", "click", "bookmark", "dwell"}

\* Tokens the auth backend knows, and one it does not.
TokenOf(u) == "token-" \o u
Tokens == {TokenOf(u) : u \in Users} \cup {"token-stale"}

\* req.headers.get('Authorization'): null, or text given as its pieces.
NoHeader == [null |-> TRUE, text |-> <<>>]
Header(text) == [null |-> FALSE, text |-> text]
Headers ==
    {NoHeader, Header(<<TokenOf("u1")>>)} \cup {Header(<<"Bearer ", t>>) : t \in Tokens}

-----------------------------------------------------------------------------
(* Arrays *)

Range(s) == {s[i] : i \in 1..Len(s)}

\* s.slice(0, n): a negative n counts from the end of the array.
Slice(s, n) ==
    LET end == IF n < 0 THEN (IF Len(s) + n < 0 THEN 0 ELSE Len(s) + n)
               ELSE (IF Len(s) < n THEN Len(s) ELSE n)
    IN  SubSeq(s, 1, end)

IndexOf(s, x) ==
    IF \E i \in 1..Len(s) : s[i] = x
    THEN (CHOOSE i \in 1..Len(s) : s[i] = x /\ \A j \in 1..(i - 1) : s[j] # x) - 1
    ELSE -1

Max(a, b) == IF a > b THEN a ELSE b

\* A sort that puts the later of two equal elements first.
SortDescUnstable(s, key) ==
    LET n == Len(s)
        keys == SubSeq(key, 1, n)
        rank == SubSeq([i \in 1..n |->
                           Cardinality({j \in 1..n :
                               \/ keys[j] > keys[i]
                               \/ keys[j] = keys[i] /\ j > i}) + 1], 1, n)
    IN  SubSeq([k \in 1..n |-> s[CHOOSE i \in 1..n : rank[i] = k]], 1, n)

\* s.sort((a, b) => key(b) - key(a)), key[i] being the key of s[i].
\* Array.prototype.sort is stable: of two elements the comparator calls equal,
\* the one at the lower index stays first.  The place of an element is one
\* more than the number of elements that go before it.
SortDesc(s, key) ==
    LET n == Len(s)
        keys == SubSeq(key, 1, n)
        rank == SubSeq([i \in 1..n |->
                           Cardinality({j \in 1..n :
                               \/ keys[j] > keys[i]
                               \/ keys[j] = keys[i] /\ j < i}) + 1], 1, n)
    IN  SubSeq([k \in 1..n |-> s[CHOOSE i \in 1..n : rank[i] = k]], 1, n)

-----------------------------------------------------------------------------
(* Calls to the backends *)

\* A handler that issues every call a second time.
IssueAgain(calls, call) == Append(Append(calls, call), call)

\* A handler issues a call: the call joins the calls of the request.
Issue(calls, call) == Append(calls, call)

-----------------------------------------------------------------------------
(* Map<string, number> *)

MapHas(m, k) == \E i \in 1..Len(m) : m[i][1] = k

\* (m.get(k) || 0)
MapGetOrZero(m, k) ==
    IF MapHas(m, k) THEN m[CHOOSE i \in 1..Len(m) : m[i][1] = k][2] ELSE 0

MapSet(m, k, v) ==
    IF MapHas(m, k)
    THEN [i \in 1..Len(m) |-> IF m[i][1] = k THEN <<k, v>> ELSE m[i]]
    ELSE Append(m, <<k, v>>)

-----------------------------------------------------------------------------
(* Storage queries *)

\* The query without its eq('user_id', uid).
SelectActivitiesOfAnyone(uid, t) ==
    SelectSeq(user_activities, LAMBDA a : a.created_at >= t - 30 * 24)

\* from('user_activities').select('*').eq('user_id', uid).gte('created_at', thirtyDaysAgo)
SelectActivities(uid, t) ==
    SelectSeq(user_activities,
              LAMBDA a : a.user_id = uid
                         /\ a.created_at >= t - 30 * 24)

\* The query without its limit(100).
SelectRecentArticlesUnlimited(t) ==
    LET rows == SelectSeq(news_articles, LAMBDA a : a.published_at >= t - 7 * 24)
    IN  SortDesc(rows, [i \in 1..Len(rows) |-> rows[i].published_at])

\* from('news_articles').select('*').gte('published_at', sevenDaysAgo)
\*     .order('published_at', { ascending: false }).limit(100)
SelectRecentArticles(t) ==
    LET rows == SelectSeq(news_articles, LAMBDA a : a.published_at >= t - 7 * 24)
    IN  Slice(SortDesc(rows, [i \in 1..Len(rows) |-> rows[i].published_at]), 100)

\* from('user_activities').select('article_id').eq('user_id', uid)
SelectInteracted(uid) ==
    LET rows == SelectSeq(user_activities, LAMBDA a : a.user_id = uid)
    IN  [i \in 1..Len(rows) |-> rows[i].article_id]

-----------------------------------------------------------------------------
(* Analyze user preferences *)

\* A weighting that forgets the click branch.
WeightWithoutClick(activity) ==
    IF activity.activity_type = "bookmark" THEN 5
    ELSE IF activity.activity_type = "dwell" /\ activity.dwell_time > 30 THEN 2
    ELSE 1

Weight(activity) ==
    IF activity.activity_type = "click" THEN 3
    ELSE IF activity.activity_type = "bookmark" THEN 5
    ELSE IF activity.activity_type = "dwell" /\ activity.dwell_time > 30 THEN 2
    ELSE 1

RECURSIVE CategoryPreferences(_)
CategoryPreferences(activities) ==
    IF activities = <<>> THEN <<>>
    ELSE LET n == Len(activities)
             m == CategoryPreferences(SubSeq(activities, 1, n - 1))
             category == activities[n].article_category
         IN  MapSet(m, category, MapGetOrZero(m, category) + Weight(activities[n]))

RECURSIVE SourcePreferences(_)
SourcePreferences(activities) ==
    IF activities = <<>> THEN <<>>
    ELSE LET n == Len(activities)
             m == SourcePreferences(SubSeq(activities, 1, n - 1))
             source == activities[n].article_source
         IN  MapSet(m, source, MapGetOrZero(m, source) + Weight(activities[n]))

\* Array.from(m.entries()).sort((a, b) => b[1] - a[1]).slice(0, 3).map(([k]) => k)
TopKeys(m) ==
    LET top == Slice(SortDesc(m, [i \in 1..Len(m) |-> m[i][2]]), 3)
    IN  [i \in 1..Len(top) |-> top[i][1]]

TopCategories(categoryPreferences) == TopKeys(categoryPreferences)

\* The list without its slice(0, 3).
TopSourcesUncut(sourcePreferences) ==
    LET m == sourcePreferences
        top == SortDesc(m, [i \in 1..Len(m) |-> m[i][2]])
    IN  [i \in 1..Len(top) |-> top[i][1]]

TopSources(sourcePreferences) == TopKeys(sourcePreferences)

-----------------------------------------------------------------------------
(* Score and filter articles *)

\* The rank counted from 1 instead of 0.
CategoryScoreFromOne(article, topCategories) ==
    LET categoryIndex == IndexOf(topCategories, article.category)
    IN  IF categoryIndex # -1 THEN (3 - (categoryIndex + 1)) * 10 ELSE 0

CategoryScore(article, topCategories) ==
    LET categoryIndex == IndexOf(topCategories, article.category)
    IN  IF categoryIndex # -1 THEN (3 - categoryIndex) * 10 ELSE 0

SourceScore(article, topSources) ==
    LET sourceIndex == IndexOf(topSources, article.source)
    IN  IF sourceIndex # -1 THEN (3 - sourceIndex) * 5 ELSE 0

RecencyScore(article, t) ==
    LET ageHours == t - article.published_at
    IN  Max(0, 24 - ageHours)

Scored(article, topCategories, topSources, t) ==
    [id |-> article.id, category |-> article.category, source |-> article.source,
     published_at |-> article.published_at,
     score |-> CategoryScore(article, topCategories)
               + SourceScore(article, topSources)
               + RecencyScore(article, t)]

ScoredArticles(recentArticles, interactedIds, topCategories, topSources, t) ==
    LET kept == SelectSeq(recentArticles, LAMBDA a : a.id \notin interactedIds)
        scored == [i \in 1..Len(kept) |-> Scored(kept[i], topCategories, topSources, t)]
    IN  Slice(SortDesc(scored, [i \in 1..Len(scored) |-> scored[i].score]), 20)

-----------------------------------------------------------------------------
(* generate-recommendations *)

\* text.replace(piece, ''): the first occurrence of the piece is removed.
Replace(text, piece) ==
    IF \E i \in 1..Len(text) : text[i] = piece
    THEN LET i == CHOOSE k \in 1..Len(text) :
                      text[k] = piece /\ \A j \in 1..(k - 1) : text[j] # piece
         IN  SubSeq(text, 1, i - 1) \o SubSeq(text, i + 1, Len(text))
    ELSE text

\* An auth backend that takes any token for the token of u1.
GetUserOfAnyToken(token) == "u1"

\* supabaseClient.auth.getUser(token): the user the token belongs to, if any.
GetUser(token) ==
    IF \E u \in Users : token = <<TokenOf(u)>>
    THEN CHOOSE u \in Users : token = <<TokenOf(u)>>
    ELSE NoUser

Call(op, uid) == [op |-> op, user_id |-> uid]

IdleRequest ==
    [pc |-> "idle", header |-> NoHeader, status |-> 0, error |-> "",
     user |-> NoUser, calls |-> <<>>, clock |-> 0,
     authError |-> FALSE, activitiesError |-> FALSE, articlesError |-> FALSE,
     activities |-> <<>>, categoryPreferences |-> <<>>, sourcePreferences |-> <<>>,
     topCategories |-> <<>>, topSources |-> <<>>,
     recentArticles |-> <<>>, interactedNull |-> FALSE, interactedIds |-> {},
     recommendations |-> <<>>]

Failed(req, status, error) ==
    [req EXCEPT !.pc = "done", !.status = status, !.error = error]

\* The handler from the request to its response.  authOk, activitiesOk, articlesOk
\* and interactedOk say whether the backend answered that call without an error.
Handle(header, authOk, activitiesOk, articlesOk, interactedOk, t) ==
    IF header.null
    THEN Failed([IdleRequest EXCEPT !.clock = t], 500, "Internal server error")
    ELSE
    LET user == IF authOk THEN GetUser(Replace(header.text, "Bearer ")) ELSE NoUser
        r1 == [IdleRequest EXCEPT !.clock = t, !.header = header,
                                  !.user = user, !.authError = ~authOk,
                                  !.calls = <<Call("auth.getUser", NoUser)>>]
    IN
    IF ~authOk \/ user = NoUser
    THEN Failed(r1, 401, "Unauthorized")
    ELSE
    LET r2 == [r1 EXCEPT !.calls = Issue(@, Call("user_activities.select", user))]
    IN
    IF ~activitiesOk
    THEN Failed([r2 EXCEPT !.activitiesError = TRUE], 500,
                "Failed to fetch user activities")
    ELSE
    LET activities == SelectActivities(user, t)
        categoryPreferences == CategoryPreferences(activities)
        sourcePreferences == SourcePreferences(activities)
        topCategories == TopCategories(categoryPreferences)
        topSources == TopSources(sourcePreferences)
        r3 == [r2 EXCEPT !.activities = activities,
                         !.categoryPreferences = categoryPreferences,
                         !.sourcePreferences = sourcePreferences,
                         !.topCategories = topCategories,
                         !.topSources = topSources,
                         !.calls = Issue(@, Call("news_articles.select", NoUser))]
    IN
    IF ~articlesOk
    THEN Failed([r3 EXCEPT !.articlesError = TRUE], 500, "Failed to fetch articles")
    ELSE
    LET recentArticles == SelectRecentArticles(t)
        interactedArticles == IF interactedOk THEN SelectInteracted(user) ELSE <<>>
        interactedIds == Range(interactedArticles)
        scoredArticles ==
            ScoredArticles(recentArticles, interactedIds, topCategories, topSources, t)
    IN  [r3 EXCEPT !.pc = "done", !.status = 200,
                   !.recentArticles = recentArticles,
                   !.interactedNull = ~interactedOk,
                   !.interactedIds = interactedIds,
                   !.recommendations = scoredArticles,
                   !.calls = Issue(@, Call("user_activities.select_article_id", user))]

Recommend(r, header, authOk, activitiesOk, articlesOk, interactedOk) ==
    /\ rec[r].pc = "idle"
    /\ rec' = [rec EXCEPT ![r] = Handle(header, authOk, activitiesOk, articlesOk,
                                        interactedOk, now)]
    /\ UNCHANGED <<now, news_articles, user_activities, search, fetch, bar, card, feed>>

\* The client has read the response.
Receive(r) ==
    /\ rec[r].pc = "done"
    /\ rec' = [rec EXCEPT ![r] = IdleRequest]
    /\ UNCHANGED <<now, news_articles, user_activities, search, fetch, bar, card, feed>>

-----------------------------------------------------------------------------
(* bert_search *)

Whitespace == {" ", "\t"}

\* String.prototype.trim, on a string given as its characters.
RECURSIVE TrimStart(_)
TrimStart(text) ==
    IF text # <<>> /\ Head(text) \in Whitespace THEN TrimStart(Tail(text)) ELSE text

RECURSIVE TrimEnd(_)
TrimEnd(text) ==
    IF text # <<>> /\ text[Len(text)] \in Whitespace
    THEN TrimEnd(SubSeq(text, 1, Len(text) - 1))
    ELSE text

Trim(text) == TrimEnd(TrimStart(text))

\* A property of the request body: undefined or null, or a value.
Missing == [present |-> FALSE, text |-> <<>>, value |-> 0]
Text(text) == [present |-> TRUE, text |-> text, value |-> 0]
Number(value) == [present |-> TRUE, text |-> <<>>, value |-> value]

\* What req.json() makes of the body: a rejection ("unparseable"), the JSON
\* literal null, a JSON value with no properties of its own ("other"), or an
\* object with its query and top_k.
NoBody == [kind |-> "none", query |-> Missing, top_k |-> Missing]
Unparseable == [kind |-> "unparseable", query |-> Missing, top_k |-> Missing]
NullBody == [kind |-> "null", query |-> Missing, top_k |-> Missing]
OtherBody == [kind |-> "other", query |-> Missing, top_k |-> Missing]
ObjectBody(query, top_k) == [kind |-> "object", query |-> query, top_k |-> top_k]

\* An embedding column: null, or an array of numbers.
NoEmbedding == [null |-> TRUE, vec |-> <<>>]
Embedding(vec) == [null |-> FALSE, vec |-> vec]

RECURSIVE Dot(_, _)
Dot(a, b) == IF a = <<>> THEN 0 ELSE Head(a) * Head(b) + Dot(Tail(a), Tail(b))

\* The Euclidean norm, for the vectors whose norm is a whole number.
Norm(a) == CHOOSE n \in 0..Dot(a, a) : n * n = Dot(a, a)

\* cosineSimilarity(a, b), in hundredths.
CosineSimilarity(a, b) == (Dot(a, b) * 100) \div (Norm(a) * Norm(b))

\* A number or SQL NULL.
Null == [null |-> TRUE, value |-> 0]
Value(v) == [null |-> FALSE, value |-> v]

\* match_news(query_embedding, match_count): 1 - (embedding <=> query_embedding)
\* of a row, NULL when the row has no embedding.
RpcSimilarity(a, queryEmbedding) ==
    IF a.embedding.null THEN Null
    ELSE Value(CosineSimilarity(a.embedding.vec, queryEmbedding))

\* order by embedding <=> query_embedding: ascending distance, NULLs last,
\* rows of equal distance in any order.  The orders are permutations of the
\* row numbers of the table.
MatchOrders(queryEmbedding) ==
    LET n == Len(news_articles)
        sim == [i \in 1..n |-> RpcSimilarity(news_articles[i], queryEmbedding)]
        NotAfter(i, j) ==
            \/ sim[j].null
            \/ ~sim[i].null /\ sim[i].value >= sim[j].value
    IN  {p \in [1..n -> 1..n] :
            /\ \A i, j \in 1..n : i # j => p[i] # p[j]
            /\ \A i, j \in 1..n : i < j => NotAfter(p[i], p[j])}

MatchRow(a, queryEmbedding) ==
    [id |-> a.id, category |-> a.category, source |-> a.source,
     published_at |-> a.published_at,
     similarity |-> RpcSimilarity(a, queryEmbedding)]

\* The rows match_news returns: limit match_count.
MatchNews(queryEmbedding, match_count, order) ==
    LET rows == [k \in 1..Len(news_articles) |->
                    MatchRow(news_articles[order[k]], queryEmbedding)]
    IN  SubSeq(rows, 1, IF Len(rows) < match_count THEN Len(rows) ELSE match_count)

\* from('news_articles').select(...).gte('published_at', sevenDaysAgo).limit(500)
SelectCandidates(t) ==
    Slice(SelectSeq(news_articles, LAMBDA a : a.published_at >= t - 7 * 24), 500)

\* The candidate with its score; failing is the id of the candidate for which
\* cosineSimilarity throws, 0 when it throws for none.
ScoredCandidate(a, queryEmbedding, failing) ==
    [id |-> a.id, category |-> a.category, source |-> a.source,
     published_at |-> a.published_at,
     score |-> IF a.id = failing THEN 0
               ELSE CosineSimilarity(queryEmbedding, a.embedding.vec)]

\* A scoring that keeps the candidates without an embedding, at score 0.
ScoredCandidatesKeepingAll(candidates, queryEmbedding, top_k, failing) ==
    LET scored == [i \in 1..Len(candidates) |->
                      IF candidates[i].embedding.null
                      THEN [id |-> candidates[i].id,
                            category |-> candidates[i].category,
                            source |-> candidates[i].source,
                            published_at |-> candidates[i].published_at,
                            score |-> 0]
                      ELSE ScoredCandidate(candidates[i], queryEmbedding, failing)]
    IN  Slice(SortDesc(scored, [i \in 1..Len(scored) |-> scored[i].score]), top_k)

ScoredCandidates(candidates, queryEmbedding, top_k, failing) ==
    LET kept == SelectSeq(candidates, LAMBDA a : ~a.embedding.null)
        scored == [i \in 1..Len(kept) |->
                      ScoredCandidate(kept[i], queryEmbedding, failing)]
    IN  Slice(SortDesc(scored, [i \in 1..Len(scored) |-> scored[i].score]), top_k)

\* What the embedding provider does to a request.
Providers == {"no key", "not ok", "ok"}

\* An embedding step that makes up an embedding when the provider fails.
GetEmbeddingOrMakeOne(provider, queryEmbedding) ==
    [threw |-> FALSE, called |-> provider # "no key", detail |-> "",
     embedding |-> queryEmbedding]

\* getOpenAIEmbedding: throws without an API key, before anything is sent,
\* throws on a response that is not ok, and returns the embedding otherwise.
GetOpenAIEmbedding(provider, queryEmbedding) ==
    [threw |-> provider # "ok",
     called |-> provider # "no key",
     detail |-> CASE provider = "no key" -> "Error: Missing OPENAI_API_KEY"
                  [] provider = "not ok" -> "Error: OpenAI embedding request failed"
                  [] OTHER -> "",
     embedding |-> IF provider = "ok" THEN queryEmbedding ELSE <<>>]

\* What the match_news call does.
Rpcs == {"throws", "error", "runs"}

\* The test without rpcData.length > 0.
RpcUsableWhenEmpty(rpcError, rpcData) == ~rpcError

\* !rpcError && rpcData && Array.isArray(rpcData) && rpcData.length > 0
RpcUsable(rpcError, rpcData) == ~rpcError /\ Len(rpcData) > 0

IdleSearch ==
    [pc |-> "idle", request |-> NoBody, status |-> 0, error |-> "", detail |-> "",
     calls |-> <<>>, clock |-> 0, q |-> <<>>, top_k |-> 0, path |-> "",
     provider |-> "", queryEmbedding |-> <<>>,
     rpc |-> "", rpcError |-> FALSE, rpcData |-> <<>>,
     candidatesError |-> FALSE, candidates |-> <<>>, failing |-> 0,
     recommendations |-> <<>>]

SearchFailed(req, detail) ==
    [req EXCEPT !.pc = "done", !.status = 500, !.error = "Internal server error",
                !.detail = detail, !.path = "catch"]

\* The handler from the request to its response.  provider says what the
\* embedding provider does, and queryEmbedding what it answers; rpc whether the
\* match_news call threw ("throws"), returned an error ("error") or ran the
\* function ("runs"), and order in which order the function met the rows;
\* candidatesOk whether the fallback query returned without an error; failing
\* for which candidate cosineSimilarity throws.
SearchHandle(body, provider, queryEmbedding, rpc, order, candidatesOk, failing, t) ==
    LET r0 == [IdleSearch EXCEPT !.request = body, !.clock = t]
    IN
    IF body.kind = "null"
    THEN SearchFailed(r0, "TypeError")
    ELSE
    LET parsed == IF body.kind = "object" THEN body ELSE ObjectBody(Missing, Missing)
        q == Trim(IF parsed.query.present THEN parsed.query.text ELSE <<>>)
        top_k == IF parsed.top_k.present THEN parsed.top_k.value ELSE 10
        r1 == [r0 EXCEPT !.q = q, !.top_k = top_k]
    IN
    IF q = <<>>
    THEN [r1 EXCEPT !.pc = "done", !.status = 200, !.path = "blank"]
    ELSE
    LET got == GetOpenAIEmbedding(provider, queryEmbedding)
        r2 == [r1 EXCEPT !.provider = provider,
                         !.calls = IF got.called THEN Issue(@, "embeddings") ELSE @]
    IN
    IF got.threw
    THEN SearchFailed(r2, got.detail)
    ELSE
    LET \* limit match_count: a negative count is an error of the database
        rpcError == rpc = "error" \/ (rpc = "runs" /\ top_k < 0)
        rpcData == IF rpc = "runs" /\ ~rpcError
                   THEN MatchNews(got.embedding, top_k, order)
                   ELSE <<>>
        r3 == [r2 EXCEPT !.queryEmbedding = got.embedding,
                         !.rpc = rpc, !.rpcError = rpcError, !.rpcData = rpcData,
                         !.calls = Issue(@, "rpc.match_news")]
    IN
    IF rpc # "throws" /\ RpcUsable(rpcError, rpcData)
    THEN [r3 EXCEPT !.pc = "done", !.status = 200, !.path = "rpc",
                    !.recommendations = rpcData]
    ELSE
    LET r4 == [r3 EXCEPT !.calls = Issue(@, "news_articles.select")]
    IN
    IF ~candidatesOk
    THEN SearchFailed([r4 EXCEPT !.candidatesError = TRUE], "news_articles query error")
    ELSE
    LET candidates == SelectCandidates(t)
        r5 == [r4 EXCEPT !.candidates = candidates]
    IN
    IF Len(candidates) = 0
    THEN [r5 EXCEPT !.pc = "done", !.status = 200, !.path = "no candidates"]
    ELSE [r5 EXCEPT !.pc = "done", !.status = 200, !.path = "fallback",
                    !.failing = failing,
                    !.recommendations =
                        ScoredCandidates(candidates, got.embedding, top_k, failing)]

Search(body, provider, queryEmbedding, rpc, order, candidatesOk, failing) ==
    /\ search.pc = "idle"
    /\ search' = SearchHandle(body, provider, queryEmbedding, rpc, order,
                              candidatesOk, failing, now)
    /\ UNCHANGED <<now, news_articles, user_activities, rec, fetch, bar, card, feed>>

\* The client has read the response.
ReceiveSearch ==
    /\ search.pc = "done"
    /\ search' = IdleSearch
    /\ UNCHANGED <<now, news_articles, user_activities, rec, fetch, bar, card, feed>>

-----------------------------------------------------------------------------
(* fetch-news *)

\* The characters of codes 32 to 122, in the order of their codes, the grave
\* accent of code 96 by its name.  A string
\* of an upstream entry is the sequence of its characters; null, undefined and
\* the empty string are the empty sequence.
Characters ==
    << " ", "!", "\"", "#", "$", "%", "&", "'", "(", ")", "*", "+", ",",
       "-", ".", "/", "0", "1", "2", "3", "4", "5", "6", "7", "8", "9",
       ":", ";", "<", "=", ">", "?", "@", "A", "B", "C", "D", "E", "F",
       "G", "H", "I", "J", "K", "L", "M", "N", "O", "P", "Q", "R", "S",
       "T", "U", "V", "W", "X", "Y", "Z", "[", "\\", "]", "^", "_", "grave",
       "a", "b", "c", "d", "e", "f", "g", "h", "i", "j", "k", "l", "m",
       "n", "o", "p", "q", "r", "s", "t", "u", "v", "w", "x", "y", "z" >>

CharCode(c) == 31 + CHOOSE i \in 1..Len(Characters) : Characters[i] = c

\* String.prototype.toLowerCase
ToLowerCase(text) ==
    [i \in 1..Len(text) |->
        IF CharCode(text[i]) \in 65..90
        THEN Characters[CharCode(text[i]) + 32 - 31]
        ELSE text[i]]

\* String.prototype.includes
Includes(text, piece) ==
    \E i \in 0..(Len(text) - Len(piece)) : SubSeq(text, i + 1, i + Len(piece)) = piece

\* The digits of base64.
Base64 ==
    << "A", "B", "C", "D", "E", "F", "G", "H", "I", "J", "K", "L", "M",
       "N", "O", "P", "Q", "R", "S", "T", "U", "V", "W", "X", "Y", "Z",
       "a", "b", "c", "d", "e", "f", "g", "h", "i", "j", "k", "l", "m",
       "n", "o", "p", "q", "r", "s", "t", "u", "v", "w", "x", "y", "z",
       "0", "1", "2", "3", "4", "5", "6", "7", "8", "9", "+", "/" >>

\* btoa: three bytes give four digits, "=" pads the last group.
RECURSIVE Btoa(_)
Btoa(text) ==
    IF text = <<>> THEN <<>>
    ELSE LET n == Len(text)
             b1 == CharCode(text[1])
             b2 == IF n >= 2 THEN CharCode(text[2]) ELSE 0
             b3 == IF n >= 3 THEN CharCode(text[3]) ELSE 0
         IN  << Base64[(b1 \div 4) + 1],
                Base64[(b1 % 4) * 16 + (b2 \div 16) + 1],
                IF n >= 2 THEN Base64[(b2 % 16) * 4 + (b3 \div 64) + 1] ELSE "=",
                IF n >= 3 THEN Base64[(b3 % 64) + 1] ELSE "=" >>
             \o Btoa(SubSeq(text, 4, n))

\* replace(/[^a-zA-Z0-9]/g, '')
Alphanumeric(text) ==
    SelectSeq(text, LAMBDA c : \E i \in 1..62 : Base64[i] = c)

\* btoa(article.url).replace(/[^a-zA-Z0-9]/g, '').substring(0, 20)
IdOf(url) == Slice(Alphanumeric(Btoa(url)), 20)

\* a || b
Or(a, b) == IF a # <<>> THEN a ELSE b

Entry(title, description, url, urlToImage, source, publishedAt, content) ==
    [title |-> title, description |-> description, url |-> url,
     urlToImage |-> urlToImage, source |-> source, publishedAt |-> publishedAt,
     content |-> content]

\* article.source of an entry: an object with a name, or null.
NoSource == [null |-> TRUE, name |-> <<>>]
Source(name) == [null |-> FALSE, name |-> name]

\* The filter without its last conjunct.
KeepsRemoved(article) ==
    /\ article.title # <<>>
    /\ article.description # <<>>
    /\ article.url # <<>>

\* The filter that keeps the entries the handler passes on.
Keeps(article) ==
    /\ article.title # <<>>
    /\ article.description # <<>>
    /\ article.url # <<>>
    /\ article.title # <<"[", "R", "e", "m", "o", "v", "e", "d", "]">>

Transformed(article) ==
    [id |-> IdOf(article.url),
     title |-> article.title,
     summary |-> Or(article.description, article.title),
     content |-> Or(article.content, Or(article.description, <<>>)),
     url |-> article.url,
     image_url |-> Or(article.urlToImage, <<>>),
     source |-> article.source.name,
     category |-> IF Includes(ToLowerCase(article.title), <<"s", "p", "o", "r", "t">>)
                  THEN "sports" ELSE "technology",
     language |-> "en",
     published_at |-> article.publishedAt]

TransformedArticles(articles) ==
    LET kept == SelectSeq(articles, Keeps)
    IN  SubSeq([i \in 1..Len(kept) |-> Transformed(kept[i])], 1, Len(kept))

\* What the news API does: the request fails ("throws"), the response is not
\* ok, the body says an error with or without a message, or all is well.
Upstreams == {"throws", "not ok", "error", "error without message", "ok"}

IdleFetch ==
    [pc |-> "idle", status |-> 0, error |-> "", calls |-> <<>>,
     apiKey |-> FALSE, upstream |-> "", received |-> <<>>,
     articles |-> <<>>, total |-> 0]

FetchFailed(req, error) ==
    [req EXCEPT !.pc = "done", !.status = 500, !.error = error]

\* The handler from the request to its response.  apiKey says whether
\* NEWS_API_KEY is set, upstream what the news API does, and articles what
\* data.articles holds.
FetchHandle(apiKey, upstream, articles) ==
    LET r0 == [IdleFetch EXCEPT !.apiKey = apiKey]
    IN
    IF ~apiKey
    THEN FetchFailed(r0, "API key not configured")
    ELSE
    LET r1 == [r0 EXCEPT !.upstream = upstream, !.calls = Issue(@, "newsapi")]
    IN
    CASE upstream = "throws" -> FetchFailed(r1, "Internal server error")
      [] upstream = "not ok" -> FetchFailed(r1, "Failed to fetch news")
      [] upstream = "error" -> FetchFailed(r1, "message of the news API")
      [] upstream = "error without message" -> FetchFailed(r1, "NewsAPI error")
      [] \E i \in 1..Len(articles) : Keeps(articles[i]) /\ articles[i].source.null ->
           \* article.source.name of a null source throws inside map
           FetchFailed([r1 EXCEPT !.received = articles], "Internal server error")
      [] OTHER ->
           LET transformedArticles == TransformedArticles(articles)
           IN  [r1 EXCEPT !.pc = "done", !.status = 200,
                          !.received = articles,
                          !.articles = transformedArticles,
                          !.total = Len(transformedArticles)]

FetchNews(apiKey, upstream, articles) ==
    /\ fetch.pc = "idle"
    /\ fetch' = FetchHandle(apiKey, upstream, articles)
    /\ UNCHANGED <<now, news_articles, user_activities, rec, search, bar, card, feed>>

\* The client has read the response.
ReceiveFetch ==
    /\ fetch.pc = "done"
    /\ fetch' = IdleFetch
    /\ UNCHANGED <<now, news_articles, user_activities, rec, search, bar, card, feed>>

-----------------------------------------------------------------------------
(* Between requests *)

\* No response is waiting to be read; the tables change between requests.
Quiet ==
    (\A r \in Reqs : rec[r].pc = "idle") /\ search.pc = "idle" /\ fetch.pc = "idle"

-----------------------------------------------------------------------------
(* Writers of the tables *)

Article(id, category, source, publishedAt) ==
    [id |-> id, category |-> category, source |-> source, published_at |-> publishedAt]

Activity(uid, article, activityType, dwellTime, t) ==
    [user_id |-> uid, article_id |-> article.id, activity_type |-> activityType,
     dwell_time |-> dwellTime,
     article_category |-> article.category, article_source |-> article.source,
     created_at |-> t]

\* NewsCard.trackActivity: one row for the card's article, stamped by the database.
TrackActivity(uid, article, activityType, dwellTime) ==
    /\ Quiet
    /\ Cardinality({i \in 1..Len(user_activities) :
                        user_activities[i].created_at = now}) < MaxActs
    /\ user_activities' =
           Append(user_activities, Activity(uid, article, activityType, dwellTime, now))
    /\ UNCHANGED <<now, news_articles, rec, search, fetch, bar, card, feed>>

\* The ingestion step stores an article under the next identifier.
IngestArticle(category, source, publishedAt) ==
    /\ Quiet
    /\ news_articles' =
           Append(news_articles,
                  Article(Len(news_articles) + 1, category, source, publishedAt))
    /\ UNCHANGED <<now, user_activities, rec, search, fetch, bar, card, feed>>

\* A row of news_articles once the embedding column exists.
EmbeddedArticle(id, category, source, publishedAt, embedding) ==
    [id |-> id, category |-> category, source |-> source,
     published_at |-> publishedAt, embedding |-> embedding]

\* The ingestion step once the embedding column exists.
IngestEmbedded(category, source, publishedAt, embedding) ==
    /\ Quiet
    /\ news_articles' =
           Append(news_articles,
                  EmbeddedArticle(Len(news_articles) + 1, category, source,
                                  publishedAt, embedding))
    /\ UNCHANGED <<now, user_activities, rec, search, fetch, bar, card, feed>>

\* An hour passes, whether or not responses are waiting to be read.
Tick ==
    /\ now < Clock0 + MaxTicks
    /\ now' = now + 1
    /\ UNCHANGED <<news_articles, user_activities, rec, search, fetch, bar, card, feed>>

-----------------------------------------------------------------------------
(* Table contents the specifications start from *)

\* The five sample rows of the schema, and three rows more.
SampleArticles ==
    << Article(1, "technology", "TechCrunch", Clock0 - 2),
       Article(2, "world", "Reuters", Clock0 - 4),
       Article(3, "business", "CNN", Clock0 - 6),
       Article(4, "sports", "BBC News", Clock0 - 8),
       Article(5, "health", "The Guardian", Clock0 - 12),
       Article(6, "technology", "Reuters", Clock0 - 30),
       Article(7, "sports", "TechCrunch", Clock0 + 1),
       Article(8, "business", "BBC News", Clock0 - 8 * 24) >>

\* The cards of the feed, in the order the feed lists them.
Feed == SubSeq(SampleArticles, 1, 4)

\* Rows stored earlier: one of u1 that has left the 30-day window, one of u2.
History ==
    << Activity("u1", SampleArticles[1], "bookmark", 0, Clock0 - 31 * 24),
       Activity("u2", SampleArticles[2], "click", 0, Clock0 - 1) >>

\* click and view on technology, bookmark on sports.
Example ==
    << Activity("u1", SampleArticles[1], "click", 0, Clock0 - 3),
       Activity("u1", SampleArticles[1], "view", 0, Clock0 - 3),
       Activity("u1", SampleArticles[4], "bookmark", 0, Clock0 - 2) >>

\* One view each of technology, sports and world.
Browsed ==
    << Activity("u1", SampleArticles[1], "view", 0, Clock0 - 3),
       Activity("u1", SampleArticles[4], "view", 0, Clock0 - 2),
       Activity("u1", SampleArticles[2], "view", 0, Clock0 - 1) >>

\* (dwellTime || 0) for the activity types tracked with and without a dwell time.
DwellTimes(activityType) == IF activityType = "dwell" THEN {30, 31} ELSE {0}

\* A user meets the cards in feed order: the cards on screen are those seen
\* before and the first one not yet seen.
Met(uid) ==
    {k \in 1..Len(Feed) :
        \E i \in 1..Len(user_activities) :
            /\ user_activities[i].user_id = uid
            /\ user_activities[i].article_id = Feed[k].id}

OnScreen(uid) == {k \in 1..Len(Feed) : \A j \in 1..(k - 1) : j \in Met(uid)}

\* At most one backend call of a request fails: the handler stops at the first
\* failure it checks, so a second one changes nothing.
Outcomes ==
    {o \in [{"auth", "activities", "articles", "interacted"} -> BOOLEAN] :
        Cardinality({c \in DOMAIN o : ~o[c]}) <= 1}

-----------------------------------------------------------------------------
(* SearchBar *)

\* What the user types into the input.
Typed == {<<>>, <<" ">>, <<"a">>, <<"a", "i">>, <<"S", "p", "o", "r", "t">>}

\* The argument handleSubmit is called with: the submit event of the form, or
\* any other value.
SubmitEvent == [event |-> TRUE, text |-> <<>>]
NotAnEvent(text) == [event |-> FALSE, text |-> text]

\* The component after construction.  submitted holds the queries the form
\* was submitted with, calls the calls of onSearch and of the search endpoint,
\* threw whether a handler ended in an uncaught TypeError.
IdleBar ==
    [query |-> <<>>, isExpanded |-> FALSE, prevented |-> FALSE, threw |-> FALSE,
     submitted |-> {}, calls |-> <<>>]

\* queryBertSearch: one POST of { query } to VITE_BERT_SEARCH_URL.  No handler
\* of the component calls it.
QueryBertSearch(b, query) ==
    [b EXCEPT !.calls = Issue(@, [op |-> "bert_search", query |-> query])]

\* handleSubmit: e.preventDefault(), then handleSubmit(query), the function
\* itself; a string has no preventDefault and the inner call throws.
RECURSIVE HandleSubmit(_, _)
HandleSubmit(b, e) ==
    IF e.event
    THEN HandleSubmit([b EXCEPT !.prevented = TRUE], NotAnEvent(b.query))
    ELSE [b EXCEPT !.threw = TRUE]

\* onChange of the input
Change(text) ==
    /\ bar' = [bar EXCEPT !.query = text]
    /\ UNCHANGED <<now, news_articles, user_activities, rec, search, fetch, card, feed>>

\* onFocus of the input
Focus ==
    /\ bar' = [bar EXCEPT !.isExpanded = TRUE]
    /\ UNCHANGED <<now, news_articles, user_activities, rec, search, fetch, card, feed>>

\* onBlur of the input: !query && setIsExpanded(false)
Blur ==
    /\ bar' = IF bar.query = <<>> THEN [bar EXCEPT !.isExpanded = FALSE] ELSE bar
    /\ UNCHANGED <<now, news_articles, user_activities, rec, search, fetch, card, feed>>

\* onSubmit of the form
Submit ==
    /\ bar' = HandleSubmit([bar EXCEPT !.submitted = @ \cup {bar.query}], SubmitEvent)
    /\ UNCHANGED <<now, news_articles, user_activities, rec, search, fetch, card, feed>>

\* handleClear, the button shown while the query is not empty: setQuery(''),
\* then handleSubmit('') throws before setIsExpanded(false).
Clear ==
    /\ bar.query # <<>>
    /\ bar' = HandleSubmit([bar EXCEPT !.query = <<>>], NotAnEvent(<<>>))
    /\ UNCHANGED <<now, news_articles, user_activities, rec, search, fetch, card, feed>>

-----------------------------------------------------------------------------
(* NewsCard *)

\* Date.now() is counted in half seconds, from DateNow0 on.
DateNow0 == 10

\* Math.round(ms / 1000) of a span given in half seconds.
RoundSeconds(halves) == (halves + 1) \div 2

\* What a write of the client library comes to: it is applied, it returns
\* { error }, or the call throws.
Writes == {"ok", "error", "throws"}

NoArticle == Article(0, "", "", 0)

\* The values the cleanup of the effect closes over.
Closure(user, dwellStartTime) == [user |-> user, dwellStartTime |-> dwellStartTime]

\* No card on screen.  dwellStartTime 0 stands for null.  shownAt, left,
\* startedClean, dwellsAtMount and writes are kept for the claims: when the
\* card was mounted and unmounted, whether storage held a bookmark row and how
\* many dwell rows at the mount, and the writes of the last handler.
NoCard ==
    [mounted |-> FALSE, user |-> NoUser, article |-> NoArticle,
     isBookmarked |-> FALSE, dwellStartTime |-> 0, effect |-> Closure(NoUser, 0),
     clock |-> DateNow0, shownAt |-> 0, left |-> 0,
     startedClean |-> FALSE, dwellsAtMount |-> 0, writes |-> <<>>]

\* The rows of one user on one article of one activity type.
RowsOf(rows, uid, articleId, activityType) ==
    SelectSeq(rows, LAMBDA a : /\ a.user_id = uid
                               /\ a.article_id = articleId
                               /\ a.activity_type = activityType)

WriteOf(op, outcome, n) == [op |-> op, outcome |-> outcome, rows |-> n]

\* The table and the log of writes a handler has got to.
Written(rows, writes) == [rows |-> rows, writes |-> writes]

\* trackActivity: nothing without a user; otherwise one insert, whose error
\* is not read and whose throw is caught and logged.
Track(w, user, article, activityType, dwellTime, outcome) ==
    IF user = NoUser THEN w
    ELSE IF outcome = "ok"
         THEN Written(Append(w.rows, Activity(user, article, activityType, dwellTime, now)),
                      Issue(w.writes, WriteOf("insert", outcome, 1)))
         ELSE Written(w.rows, Issue(w.writes, WriteOf("insert", outcome, 0)))

\* delete().eq('user_id', ...).eq('article_id', ...).eq('activity_type', 'bookmark')
DeleteBookmarks(w, user, article, outcome) ==
    IF outcome = "ok"
    THEN LET kept == SelectSeq(w.rows, LAMBDA a : ~(/\ a.user_id = user
                                                     /\ a.article_id = article.id
                                                     /\ a.activity_type = "bookmark"))
         IN  Written(kept, Issue(w.writes, WriteOf("delete", outcome, Len(w.rows) - Len(kept))))
    ELSE Written(w.rows, Issue(w.writes, WriteOf("delete", outcome, 0)))

\* The cleanup of the effect, with the user and the dwellStartTime of the
\* render the effect ran in.
Cleanup(c, w, outcome) ==
    LET dwellTime == RoundSeconds(c.clock - c.effect.dwellStartTime)
    IN  IF c.effect.dwellStartTime # 0 /\ c.effect.user # NoUser /\ dwellTime > 2
        THEN Track(w, c.effect.user, c.article, "dwell", dwellTime, outcome)
        ELSE w

\* The body of the effect in a render with this dwellStartTime.
Effect(c, w, outcome) ==
    LET tracked == Track(w, c.user, c.article, "view", 0, outcome)
    IN  [card |-> [c EXCEPT !.dwellStartTime = IF c.user # NoUser THEN c.clock ELSE @,
                            !.effect = Closure(c.user, c.dwellStartTime),
                            !.writes = tracked.writes],
         rows |-> tracked.rows]

\* A card is rendered for this article; user is what useAuth returns.
Mount(user, article, outcome) ==
    /\ Quiet
    /\ ~card.mounted
    /\ LET c == [NoCard EXCEPT
                    !.mounted = TRUE, !.user = user, !.article = article,
                    !.clock = card.clock, !.shownAt = card.clock,
                    !.startedClean =
                        RowsOf(user_activities, user, article.id, "bookmark") = <<>>,
                    !.dwellsAtMount =
                        Len(RowsOf(user_activities, user, article.id, "dwell"))]
           done == Effect(c, Written(user_activities, <<>>), outcome)
       IN  /\ card' = done.card
           /\ user_activities' = done.rows
    /\ UNCHANGED <<now, news_articles, rec, search, fetch, bar, feed>>

\* useAuth returns another object for the same user: the cleanup of the last
\* effect runs, then the effect again.
Refresh(outcomeOfDwell, outcomeOfView) ==
    /\ Quiet
    /\ card.mounted
    /\ card.user # NoUser
    /\ LET cleaned == Cleanup(card, Written(user_activities, <<>>), outcomeOfDwell)
           done == Effect(card, cleaned, outcomeOfView)
       IN  /\ card' = done.card
           /\ user_activities' = done.rows
    /\ UNCHANGED <<now, news_articles, rec, search, fetch, bar, feed>>

\* The card leaves the screen: the cleanup of the last effect runs.
Unmount(outcome) ==
    /\ Quiet
    /\ card.mounted
    /\ LET cleaned == Cleanup(card, Written(user_activities, <<>>), outcome)
       IN  /\ card' = [card EXCEPT !.mounted = FALSE, !.left = card.clock,
                                   !.writes = cleaned.writes]
           /\ user_activities' = cleaned.rows
    /\ UNCHANGED <<now, news_articles, rec, search, fetch, bar, feed>>

\* Half a second passes on screen.
Elapse ==
    /\ card.mounted
    /\ card' = [card EXCEPT !.clock = @ + 1]
    /\ UNCHANGED <<now, news_articles, user_activities, rec, search, fetch, bar, feed>>

\* handleClick: the click is tracked, then the article opens.
HandleClick(outcome) ==
    /\ Quiet
    /\ card.mounted
    /\ LET tracked == Track(Written(user_activities, <<>>), card.user, card.article,
                            "click", 0, outcome)
       IN  /\ card' = [card EXCEPT !.writes = tracked.writes]
           /\ user_activities' = tracked.rows
    /\ UNCHANGED <<now, news_articles, rec, search, fetch, bar, feed>>

\* handleBookmark: with the flag set the bookmark rows are deleted and the
\* flag is cleared, otherwise a bookmark is tracked and the flag is set; a
\* throw of the delete skips setIsBookmarked.
HandleBookmark(outcome) ==
    /\ Quiet
    /\ card.mounted
    /\ IF card.user = NoUser
       THEN /\ card' = [card EXCEPT !.writes = <<>>]
            /\ UNCHANGED user_activities
       ELSE IF card.isBookmarked
       THEN LET deleted == DeleteBookmarks(Written(user_activities, <<>>), card.user,
                                           card.article, outcome)
            IN  /\ card' = [card EXCEPT !.isBookmarked = IF outcome = "throws" THEN @ ELSE FALSE,
                                        !.writes = deleted.writes]
                /\ user_activities' = deleted.rows
       ELSE LET tracked == Track(Written(user_activities, <<>>), card.user, card.article,
                                 "bookmark", 0, outcome)
            IN  /\ card' = [card EXCEPT !.isBookmarked = TRUE, !.writes = tracked.writes]
                /\ user_activities' = tracked.rows
    /\ UNCHANGED <<now, news_articles, rec, search, fetch, bar, feed>>

-----------------------------------------------------------------------------
(* NewsFeed *)

NoFilters == [category |-> "", source |-> <<>>, language |-> "", dateRange |-> ""]

\* Hours before the months of a year that is not a leap year; the clock
\* counts from the start of such a year, in the local time zone.
HoursBeforeMonth ==
    << 0, 744, 1416, 2160, 2880, 3624, 4344, 5088, 5832, 6552, 7296, 8016 >>

\* startDate of the dateRange filter, as getTime() in hours.
StartDate(dateRange, t) ==
    CASE dateRange = "today" -> t - (t % 24)
      [] dateRange = "week" -> t - 7 * 24
      [] dateRange = "month" ->
             HoursBeforeMonth[CHOOSE m \in 1..12 :
                 /\ HoursBeforeMonth[m] <= t % 8760
                 /\ \A n \in 1..12 : HoursBeforeMonth[n] <= t % 8760 => n <= m]
             + (t - (t % 8760))
      [] OTHER -> 0

\* text.toLowerCase().includes(piece.toLowerCase())
IncludesLowerCase(text, piece) == Includes(ToLowerCase(text), ToLowerCase(piece))

\* The filters of fetchArticles: search, category, source,
\* language and date range in turn, then the first 20.
Filtered(fetchedArticles, filters, searchQuery, t) ==
    LET searched ==
            IF searchQuery # <<>>
            THEN SelectSeq(fetchedArticles, LAMBDA a :
                     \/ IncludesLowerCase(a.title, searchQuery)
                     \/ IncludesLowerCase(a.summary, searchQuery)
                     \/ IncludesLowerCase(a.source, searchQuery))
            ELSE fetchedArticles
        ofCategory ==
            IF filters.category # ""
            THEN SelectSeq(searched, LAMBDA a : a.category = filters.category)
            ELSE searched
        ofSource ==
            IF filters.source # <<>>
            THEN SelectSeq(ofCategory, LAMBDA a : IncludesLowerCase(a.source, filters.source))
            ELSE ofCategory
        ofLanguage ==
            IF filters.language # ""
            THEN SelectSeq(ofSource, LAMBDA a : a.language = filters.language)
            ELSE ofSource
        ofDateRange ==
            IF filters.dateRange # ""
            THEN SelectSeq(ofLanguage, LAMBDA a :
                     a.published_at >= StartDate(filters.dateRange, t))
            ELSE ofLanguage
    IN  Slice(ofDateRange, 20)

\* A call of fetchArticles awaiting its response: the filters and the
\* searchQuery of the render it was made in.  latest marks the call made last.
Pending(filters, searchQuery) ==
    [filters |-> filters, searchQuery |-> searchQuery, latest |-> TRUE]

\* The component as constructed.  inFlight holds the calls of fetchArticles
\* awaiting a response, latestOutcome what became of the call made last,
\* recInFlight the number of generate-recommendations requests awaiting a
\* response, toast the description of the last toast.
IdleFeed ==
    [mounted |-> FALSE, user |-> NoUser, filters |-> NoFilters, searchQuery |-> <<>>,
     articles |-> <<>>, loading |-> TRUE,
     recommendations |-> <<>>, loadingRecommendations |-> FALSE,
     showRecommendations |-> FALSE,
     inFlight |-> <<>>, latestOutcome |-> "", recInFlight |-> 0, toast |-> ""]

\* fetchArticles up to its await: setLoading(true) and the request.
FetchArticles(f) ==
    [f EXCEPT !.loading = TRUE,
              !.inFlight = Append([i \in 1..Len(@) |-> [@[i] EXCEPT !.latest = FALSE]],
                                  Pending(f.filters, f.searchQuery)),
              !.latestOutcome = "pending"]

\* The component after its first render and the effect of lines 59-61.
MountedFeed(user) == FetchArticles([IdleFeed EXCEPT !.mounted = TRUE, !.user = user])

\* handleFiltersChange: the new filters object re-runs the effect.
SetFilters(filters) ==
    /\ feed.mounted
    /\ feed' = FetchArticles([feed EXCEPT !.filters = filters])
    /\ UNCHANGED <<now, news_articles, user_activities, rec, search, fetch, bar, card>>

\* The parent renders the feed with another searchQuery.
SetSearchQuery(searchQuery) ==
    /\ feed.mounted
    /\ searchQuery # feed.searchQuery
    /\ feed' = FetchArticles([feed EXCEPT !.searchQuery = searchQuery])
    /\ UNCHANGED <<now, news_articles, user_activities, rec, search, fetch, bar, card>>

\* The rest of fetchArticles for the k-th call in flight, on the response of
\* fetch-news: a response other than 200 is the error of invoke.
ArticlesArrive(k, response) ==
    /\ feed.mounted
    /\ k \in 1..Len(feed.inFlight)
    /\ LET call == feed.inFlight[k]
           rest == SubSeq(feed.inFlight, 1, k - 1)
                   \o SubSeq(feed.inFlight, k + 1, Len(feed.inFlight))
           ok == response.status = 200
       IN  feed' = [feed EXCEPT
                       !.inFlight = rest,
                       !.articles = IF ok
                                    THEN Filtered(response.articles, call.filters,
                                                  call.searchQuery, now)
                                    ELSE @,
                       !.toast = IF ok THEN @ ELSE "Failed to fetch latest news articles",
                       !.latestOutcome = IF call.latest
                                         THEN (IF ok THEN "ok" ELSE "error")
                                         ELSE @,
                       !.loading = FALSE]
    /\ UNCHANGED <<now, news_articles, user_activities, rec, search, fetch, bar, card>>

\* The 'AI Picks' button is disabled.
AiPicksAlwaysEnabled(f) == FALSE

AiPicksDisabled(f) == f.loadingRecommendations \/ f.user = NoUser

\* fetchRecommendations up to its await
FetchRecommendations(f) ==
    IF f.user = NoUser THEN f
    ELSE [f EXCEPT !.loadingRecommendations = TRUE, !.recInFlight = @ + 1]

\* onClick of 'AI Picks'
ClickAiPicks ==
    /\ feed.mounted
    /\ ~AiPicksDisabled(feed)
    /\ LET shown == [feed EXCEPT !.showRecommendations = TRUE]
       IN  feed' = IF Len(feed.recommendations) = 0
                   THEN FetchRecommendations(shown)
                   ELSE shown
    /\ UNCHANGED <<now, news_articles, user_activities, rec, search, fetch, bar, card>>

\* onClick of 'Latest'
ClickLatest ==
    /\ feed.mounted
    /\ feed' = [feed EXCEPT !.showRecommendations = FALSE]
    /\ UNCHANGED <<now, news_articles, user_activities, rec, search, fetch, bar, card>>

\* The rest of fetchRecommendations, on the response of
\* generate-recommendations.
RecommendationsArrive(response) ==
    /\ feed.mounted
    /\ feed.recInFlight > 0
    /\ LET ok == response.status = 200
       IN  feed' = [feed EXCEPT
                       !.recInFlight = @ - 1,
                       !.recommendations = IF ok THEN response.recommendations ELSE @,
                       !.toast = IF ok THEN "Found personalized articles for you!"
                                 ELSE "Failed to generate recommendations",
                       !.loadingRecommendations = FALSE]
    /\ UNCHANGED <<now, news_articles, user_activities, rec, search, fetch, bar, card>>

-----------------------------------------------------------------------------
(* Spec: activity histories over a fixed article table *)

Init ==
    /\ now = Clock0
    /\ news_articles = SampleArticles
    /\ user_activities \in {<<>>, History, Example}
    /\ rec = [r \in Reqs |-> IdleRequest]
    /\ search = IdleSearch
    /\ fetch = IdleFetch
    /\ bar = IdleBar
    /\ card = NoCard
    /\ feed = IdleFeed

Next ==
    \/ \E k \in OnScreen("u1"), activityType \in Kinds :
           \E dwellTime \in DwellTimes(activityType) :
               TrackActivity("u1", Feed[k], activityType, dwellTime)
    \/ \E header \in Headers, o \in Outcomes :
           Recommend(1, header, o["auth"], o["activities"], o["articles"], o["interacted"])
    \/ Receive(1)

Spec == Init /\ [][Next]_vars

-----------------------------------------------------------------------------
(* SpecScore: article tables over a few activity histories *)

ScorePairs ==
    { <<"technology", "BBC News">>, <<"sports", "TechCrunch">>,
      <<"world", "Reuters">>, <<"health", "The Guardian">> }

\* Published in an hour's time, 9 hours ago, 30 hours ago, 200 hours ago.
ScoreTimes == {Clock0 + 1, Clock0 - 9, Clock0 - 30, Clock0 - 200}

InitScore ==
    /\ now = Clock0
    /\ news_articles = <<>>
    /\ user_activities \in {<<>>, History, Example, Browsed}
    /\ rec = [r \in Reqs |-> IdleRequest]
    /\ search = IdleSearch
    /\ fetch = IdleFetch
    /\ bar = IdleBar
    /\ card = NoCard
    /\ feed = IdleFeed

NextScore ==
    \/ \E pair \in ScorePairs, publishedAt \in ScoreTimes :
           /\ Len(news_articles) < MaxArticles
           /\ IngestArticle(pair[1], pair[2], publishedAt)
    \/ \E u \in Users, interactedOk \in BOOLEAN :
           Recommend(1, Header(<<"Bearer ", TokenOf(u)>>), TRUE, TRUE, TRUE, interactedOk)
    \/ Receive(1)

SpecScore == InitScore /\ [][NextScore]_vars

-----------------------------------------------------------------------------
(* SpecBulk: an article table that grows past the limits of the queries *)

BulkCategory(k) ==
    <<"technology", "sports", "world", "business", "health">>[(k % 5) + 1]

BulkSource(k) == <<"TechCrunch", "BBC News", "Reuters">>[(k % 3) + 1]

\* Every 50th article sits on the edge of the 7-day window, every 7th is
\* dated an hour ahead, the others are spread over the last 40 hours.
BulkPublishedAt(k) ==
    IF k % 50 = 0 THEN Clock0 - 7 * 24
    ELSE IF k % 7 = 0 THEN Clock0 + 1
    ELSE Clock0 - (k % 40)

InitBulk ==
    /\ now = Clock0
    /\ news_articles = <<>>
    /\ user_activities \in {<<>>, Browsed}
    /\ rec = [r \in Reqs |-> IdleRequest]
    /\ search = IdleSearch
    /\ fetch = IdleFetch
    /\ bar = IdleBar
    /\ card = NoCard
    /\ feed = IdleFeed

NextBulk ==
    \/ /\ Len(news_articles) < MaxBulk
       /\ IngestArticle(BulkCategory(Len(news_articles) + 1),
                        BulkSource(Len(news_articles) + 1),
                        BulkPublishedAt(Len(news_articles) + 1))
    \/ Tick
    \/ Recommend(1, Header(<<"Bearer ", TokenOf("u1")>>), TRUE, TRUE, TRUE, TRUE)
    \/ Receive(1)

SpecBulk == InitBulk /\ [][NextBulk]_vars

-----------------------------------------------------------------------------
(* SpecSearch: searches over tables of articles with embeddings *)

\* The articles by identifier: a world article alike the first query, a
\* technology article alike the second, a sports article opposite to the
\* first query, a business article without an embedding, a health article
\* that has left the 7-day window.
EmbeddedCategory(k) ==
    <<"world", "technology", "sports", "business", "health">>[((k - 1) % 5) + 1]

EmbeddedPublishedAt(k) ==
    <<Clock0 - 2, Clock0 - 4, Clock0 - 6, Clock0 - 12, Clock0 - 8 * 24>>[((k - 1) % 5) + 1]

EmbeddingOf(k) ==
    <<Embedding(<<1, 0>>), Embedding(<<0, 1>>), Embedding(<<-1, 0>>),
      NoEmbedding, Embedding(<<3, 4>>)>>[((k - 1) % 5) + 1]

\* A table whose first article has no embedding, and one whose first article
\* has left the 7-day window.
Unembedded == <<EmbeddedArticle(1, "world", "Reuters", Clock0 - 2, NoEmbedding)>>
Expired == <<EmbeddedArticle(1, "world", "Reuters", Clock0 - 8 * 24, Embedding(<<1, 0>>))>>

QueryEmbeddings == {<<1, 0>>, <<0, 1>>}

Queries ==
    {Missing, Text(<<>>), Text(<<" ">>), Text(<<"\t", " ">>),
     Text(<<"a">>), Text(<<" ", "a", " ">>)}

TopKs == {Missing, Number(-1), Number(0), Number(1), Number(2)}

Bodies ==
    {Unparseable, NullBody, OtherBody}
        \cup {ObjectBody(query, top_k) : query \in Queries, top_k \in TopKs}

InitSearch ==
    /\ now = Clock0
    /\ news_articles \in {<<>>, Unembedded, Expired}
    /\ user_activities = <<>>
    /\ rec = [r \in Reqs |-> IdleRequest]
    /\ search = IdleSearch
    /\ fetch = IdleFetch
    /\ bar = IdleBar
    /\ card = NoCard
    /\ feed = IdleFeed

NextSearch ==
    \/ /\ Len(news_articles) < MaxEmbedded
       /\ IngestEmbedded(EmbeddedCategory(Len(news_articles) + 1), "Reuters",
                         EmbeddedPublishedAt(Len(news_articles) + 1),
                         EmbeddingOf(Len(news_articles) + 1))
    \/ \E queryEmbedding \in QueryEmbeddings :
           \E order \in MatchOrders(queryEmbedding) :
               \E body \in Bodies, provider \in Providers, rpc \in Rpcs,
                  candidatesOk \in BOOLEAN, failing \in 0..Len(news_articles) :
                   Search(body, provider, queryEmbedding, rpc, order,
                          candidatesOk, failing)
    \/ ReceiveSearch

SpecSearch == InitSearch /\ [][NextSearch]_vars

-----------------------------------------------------------------------------
(* SpecService: the three functions side by side, over tables with little *)
(* in them                                                                *)

\* The entries of the news API by position: a sports story, a removed story,
\* a story without description, a story whose URL differs from the first in
\* its last character.
FetchedTitle(k) ==
    << <<"S", "p", "o", "r", "t">>, <<"[", "R", "e", "m", "o", "v", "e", "d", "]">>,
       <<"A", "I">>, <<"A", "I">> >>[((k - 1) % 4) + 1]

FetchedDescription(k) == << <<"d">>, <<"d">>, <<>>, <<"d">> >>[((k - 1) % 4) + 1]

FetchedUrl(k) ==
    << <<"h", "t", "t", "p", "s", ":", "/", "/", "n", ".", "i", "o", "/", "a", "/", "1">>,
       <<"h", "t", "t", "p", ":", "/", "/", "x", ".", "y", "/", "2">>,
       <<"h", "t", "t", "p", ":", "/", "/", "x", ".", "y", "/", "3">>,
       <<"h", "t", "t", "p", "s", ":", "/", "/", "n", ".", "i", "o", "/", "a", "/", "2">> >>[((k - 1) % 4) + 1]

\* The first n entries; the last of them has a null source unless sourced.
Fetched(n, sourced) ==
    [k \in 1..n |->
        Entry(FetchedTitle(k), FetchedDescription(k), FetchedUrl(k), <<>>,
              IF k = n /\ ~sourced THEN NoSource ELSE Source(<<"B", "B", "C">>),
              Clock0 - k, <<>>)]

QueryOfService == ObjectBody(Text(<<"a">>), Missing)

InitService ==
    /\ now = Clock0
    /\ news_articles \in {<<>>, Unembedded, Expired}
    /\ user_activities \in {<<>>, Browsed}
    /\ rec = [r \in Reqs |-> IdleRequest]
    /\ search = IdleSearch
    /\ fetch = IdleFetch
    /\ bar = IdleBar
    /\ card = NoCard
    /\ feed = IdleFeed

NextService ==
    \/ \E header \in Headers, o \in Outcomes :
           Recommend(1, header, o["auth"], o["activities"], o["articles"], o["interacted"])
    \/ Receive(1)
    \/ \E order \in MatchOrders(<<1, 0>>) :
           \E body \in {Unparseable, QueryOfService}, provider \in Providers,
              rpc \in Rpcs, candidatesOk \in BOOLEAN :
               Search(body, provider, <<1, 0>>, rpc, order, candidatesOk, 0)
    \/ ReceiveSearch
    \/ \E apiKey \in BOOLEAN, upstream \in Upstreams, n \in 0..MaxFetched,
          sourced \in BOOLEAN :
           FetchNews(apiKey, upstream, Fetched(n, sourced))
    \/ ReceiveFetch

SpecService == InitService /\ [][NextService]_vars

-----------------------------------------------------------------------------
(* SpecPair: two recommendation requests at a time, among searches, new *)
(* activities and the passing of time                                    *)

InitPair ==
    /\ now = Clock0
    /\ news_articles = SampleArticles
    /\ user_activities \in {<<>>, History, Browsed}
    /\ rec = [r \in Reqs |-> IdleRequest]
    /\ search = IdleSearch
    /\ fetch = IdleFetch
    /\ bar = IdleBar
    /\ card = NoCard
    /\ feed = IdleFeed

NextPair ==
    \/ \E r \in Reqs, u \in Users, interactedOk \in BOOLEAN :
           Recommend(r, Header(<<"Bearer ", TokenOf(u)>>), TRUE, TRUE, TRUE, interactedOk)
    \/ \E r \in Reqs : Receive(r)
    \/ \E k \in OnScreen("u1") : TrackActivity("u1", Feed[k], "bookmark", 0)
    \/ Tick
    \/ Search(QueryOfService, "not ok", <<1, 0>>, "throws", <<>>, TRUE, 0)
    \/ ReceiveSearch

SpecPair == InitPair /\ [][NextPair]_vars

-----------------------------------------------------------------------------
(* SpecBar: the SearchBar in use *)

InitBar ==
    /\ now = Clock0
    /\ news_articles = <<>>
    /\ user_activities = <<>>
    /\ rec = [r \in Reqs |-> IdleRequest]
    /\ search = IdleSearch
    /\ fetch = IdleFetch
    /\ bar = IdleBar
    /\ card = NoCard
    /\ feed = IdleFeed

NextBar ==
    \/ \E text \in Typed : Change(text)
    \/ Focus
    \/ Blur
    \/ Submit
    \/ Clear

\* The event loop runs every handler that is due; the user goes on using the
\* component.
SpecBar == InitBar /\ [][NextBar]_vars /\ WF_vars(NextBar)

-----------------------------------------------------------------------------
(* SpecCard: one NewsCard at a time, and the recommendations of its user *)


\* Two bookmark rows of u1 on the first card's article, stored by cards
\* shown earlier.
Bookmarked ==
    << Activity("u1", Feed[1], "bookmark", 0, Clock0 - 2),
       Activity("u1", Feed[1], "bookmark", 0, Clock0 - 1) >>

InitCard ==
    /\ now = Clock0
    /\ news_articles = SampleArticles
    /\ user_activities \in {<<>>, Bookmarked}
    /\ rec = [r \in Reqs |-> IdleRequest]
    /\ search = IdleSearch
    /\ fetch = IdleFetch
    /\ bar = IdleBar
    /\ card = NoCard
    /\ feed = IdleFeed

NextCard ==
    \/ \E user \in {"u1", NoUser}, outcome \in {"ok", "error"} :
           /\ Len(user_activities) < MaxRows
           /\ Mount(user, Feed[1], outcome)
    \/ \E outcomeOfDwell \in {"ok", "error"}, outcomeOfView \in {"ok", "error"} :
           /\ Len(user_activities) + 1 < MaxRows
           /\ Refresh(outcomeOfDwell, outcomeOfView)
    \/ \E outcome \in {"ok", "error"} :
           /\ Len(user_activities) < MaxRows
           /\ Unmount(outcome)
    \/ /\ card.clock < DateNow0 + MaxShown
       /\ Elapse
    \/ \E outcome \in {"ok", "error"} :
           /\ Len(user_activities) < MaxRows
           /\ HandleClick(outcome)
    \/ \E outcome \in Writes :
           /\ card.isBookmarked \/ Len(user_activities) < MaxRows
           /\ HandleBookmark(outcome)

SpecCard == InitCard /\ [][NextCard]_vars

-----------------------------------------------------------------------------
(* SpecReader: a user meets cards, bookmarks them and asks for *)
(* recommendations                                             *)

InitReader ==
    /\ now = Clock0
    /\ news_articles = SampleArticles
    /\ user_activities = <<>>
    /\ rec = [r \in Reqs |-> IdleRequest]
    /\ search = IdleSearch
    /\ fetch = IdleFetch
    /\ bar = IdleBar
    /\ card = NoCard
    /\ feed = IdleFeed

NextReader ==
    \/ \E k \in 1..2, outcome \in Writes :
           /\ Len(user_activities) < MaxRows
           /\ Mount("u1", Feed[k], outcome)
    \/ \E outcome \in Writes :
           /\ Len(user_activities) < MaxRows
           /\ Unmount(outcome)
    \/ \E outcome \in Writes :
           /\ card.isBookmarked \/ Len(user_activities) < MaxRows
           /\ HandleBookmark(outcome)
    \/ \E interactedOk \in BOOLEAN :
           Recommend(1, Header(<<"Bearer ", TokenOf("u1")>>), TRUE, TRUE, TRUE, interactedOk)
    \/ Receive(1)

SpecReader == InitReader /\ [][NextReader]_vars

-----------------------------------------------------------------------------
(* SpecFeed: the NewsFeed while its filters and its searchQuery change *)


\* What the news API returns while the feed is on screen: a sports story of
\* an hour ago, and stories of yesterday, of last week and of last month.
Published ==
    << Entry(<<"S", "p", "o", "r", "t">>, <<"d">>, FetchedUrl(1), <<>>,
             Source(<<"B", "B", "C">>), Clock0 - 1, <<>>),
       Entry(<<"A", "I">>, <<"c", "h", "i", "p">>, FetchedUrl(2), <<>>,
             Source(<<"C", "N", "N">>), Clock0 - 20, <<>>),
       Entry(<<"M", "a", "r", "s">>, <<"A", "i">>, FetchedUrl(3), <<>>,
             Source(<<"B", "B", "C">>), Clock0 - 200, <<>>),
       Entry(<<"G", "o">>, <<"d">>, FetchedUrl(4), <<>>,
             Source(<<"W", "i", "r", "e", "d">>), Clock0 - 300, <<>>) >>

FilterChoices ==
    { NoFilters,
      [NoFilters EXCEPT !.category = "sports"],
      [NoFilters EXCEPT !.source = <<"b", "b", "c">>],
      [NoFilters EXCEPT !.language = "fr"],
      [NoFilters EXCEPT !.dateRange = "week"],
      [NoFilters EXCEPT !.dateRange = "month"] }

SearchQueries == {<<>>, <<"a", "i">>}

\* The responses of fetch-news: the published stories, or a failure.
FetchResponses ==
    {FetchHandle(TRUE, upstream, Published) : upstream \in {"ok", "not ok"}}

InitFeed ==
    /\ now = Clock0
    /\ news_articles = <<>>
    /\ user_activities = <<>>
    /\ rec = [r \in Reqs |-> IdleRequest]
    /\ search = IdleSearch
    /\ fetch = IdleFetch
    /\ bar = IdleBar
    /\ card = NoCard
    /\ feed = MountedFeed("u1")

NextFeed ==
    \/ \E filters \in FilterChoices :
           /\ Len(feed.inFlight) < MaxInFlight
           /\ SetFilters(filters)
    \/ \E searchQuery \in SearchQueries :
           /\ Len(feed.inFlight) < MaxInFlight
           /\ SetSearchQuery(searchQuery)
    \/ \E k \in 1..MaxInFlight, response \in FetchResponses : ArticlesArrive(k, response)

SpecFeed == InitFeed /\ [][NextFeed]_vars

-----------------------------------------------------------------------------
(* SpecPicks: the NewsFeed while its user asks for recommendations *)

InitPicks ==
    /\ now = Clock0
    /\ news_articles \in {<<>>, SampleArticles}
    /\ user_activities \in {<<>>, Browsed}
    /\ rec = [r \in Reqs |-> IdleRequest]
    /\ search = IdleSearch
    /\ fetch = IdleFetch
    /\ bar = IdleBar
    /\ card = NoCard
    /\ feed \in {MountedFeed("u1"), MountedFeed(NoUser)}

NextPicks ==
    \/ ClickAiPicks
    \/ ClickLatest
    \/ \E o \in Outcomes :
           RecommendationsArrive(
               Handle(Header(<<"Bearer ", TokenOf(feed.user)>>), o["auth"],
                      o["activities"], o["articles"], o["interacted"], now))
    \/ \E response \in FetchResponses : ArticlesArrive(1, response)
    \/ \E searchQuery \in SearchQueries :
           /\ Len(feed.inFlight) < 1
           /\ SetSearchQuery(searchQuery)

SpecPicks == InitPicks /\ [][NextPicks]_vars

-----------------------------------------------------------------------------
(* Claims on the preference maps, under Spec *)

Answered == {r \in Reqs : rec[r].pc = "done" /\ rec[r].status = 200}

RECURSIVE SumOver(_, _)
SumOver(f, S) ==
    IF S = {} THEN 0
    ELSE LET x == CHOOSE y \in S : TRUE IN f[x] + SumOver(f, S \ {x})

\* The weight table of the aggregator's contract.
TableWeight(a) ==
    CASE a.activity_type = "view" -> 1
      [] a.activity_type = "click" -> 3
      [] a.activity_type = "bookmark" -> 5
      [] a.activity_type = "dwell" -> IF a.dwell_time > 30 THEN 2 ELSE 1

\* The stored rows of the request's user inside the 30-day window.
OwnRows(r) ==
    {i \in 1..Len(user_activities) :
        /\ user_activities[i].user_id = rec[r].user
        /\ user_activities[i].created_at >= rec[r].clock - 720}

CategoryOf(a) == a.article_category
SourceOf(a) == a.article_source

MapKeys(m) == {m[i][1] : i \in 1..Len(m)}

TableSum(r, label, byCategory) ==
    SumOver([i \in OwnRows(r) |-> TableWeight(user_activities[i])],
            {i \in OwnRows(r) :
                label = IF byCategory THEN CategoryOf(user_activities[i])
                        ELSE SourceOf(user_activities[i])})

\* C4: the weight accumulated for a category, and for a source, is the sum over
\* the user's activity records with that label of 1 (view), 3 (click),
\* 5 (bookmark), 2 (dwell over 30 s), 1 (dwell up to 30 s); click and view on
\* technology with a bookmark on sports give {technology: 4, sports: 5}.
C4_WeightsAreTableSums ==
    \A r \in Answered :
        /\ MapKeys(rec[r].categoryPreferences)
             = {CategoryOf(user_activities[i]) : i \in OwnRows(r)}
        /\ MapKeys(rec[r].sourcePreferences)
             = {SourceOf(user_activities[i]) : i \in OwnRows(r)}
        /\ \A i \in 1..Len(rec[r].categoryPreferences) :
              rec[r].categoryPreferences[i][2]
                = TableSum(r, rec[r].categoryPreferences[i][1], TRUE)
        /\ \A i \in 1..Len(rec[r].sourcePreferences) :
              rec[r].sourcePreferences[i][2]
                = TableSum(r, rec[r].sourcePreferences[i][1], FALSE)
        /\ (/\ Len(rec[r].activities) = 3
            /\ [i \in 1..3 |-> <<rec[r].activities[i].article_category,
                                 rec[r].activities[i].activity_type>>]
                 = << <<"technology", "click">>, <<"technology", "view">>,
                      <<"sports", "bookmark">> >>)
           => /\ MapGetOrZero(rec[r].categoryPreferences, "technology") = 4
              /\ MapGetOrZero(rec[r].categoryPreferences, "sports") = 5
              /\ Len(rec[r].categoryPreferences) = 2

C4_Witness ==
    /\ rec[1].pc = "done" /\ rec[1].status = 200
    /\ user_activities = Example
    /\ rec[1].categoryPreferences = << <<"technology", 4>>, <<"sports", 5>> >>

\* The first position of a label in the activities the request read.
FirstSeen(acts, label, byCategory) ==
    CHOOSE i \in 1..Len(acts) :
        /\ label = IF byCategory THEN CategoryOf(acts[i]) ELSE SourceOf(acts[i])
        /\ \A j \in 1..(i - 1) :
              label # IF byCategory THEN CategoryOf(acts[j]) ELSE SourceOf(acts[j])

\* label x ranks before label y: heavier, or as heavy and seen first.
RanksBefore(m, acts, x, y, byCategory) ==
    \/ MapGetOrZero(m, x) > MapGetOrZero(m, y)
    \/ /\ MapGetOrZero(m, x) = MapGetOrZero(m, y)
       /\ FirstSeen(acts, x, byCategory) < FirstSeen(acts, y, byCategory)

IsTopThree(top, m, acts, byCategory) ==
    /\ Len(top) = IF Cardinality(MapKeys(m)) < 3 THEN Cardinality(MapKeys(m)) ELSE 3
    /\ \A i \in 1..Len(top) : top[i] \in MapKeys(m)
    /\ \A i, j \in 1..Len(top) :
          i < j => RanksBefore(m, acts, top[i], top[j], byCategory)
    /\ \A i \in 1..Len(top) : \A y \in MapKeys(m) \ Range(top) :
          RanksBefore(m, acts, top[i], y, byCategory)

\* C5: the top-categories and top-sources lists are the first 3 labels by
\* descending accumulated weight; of two labels with equal weight the one
\* met first in the activity input ranks first.
C5_TopThreeStable ==
    \A r \in Answered :
        /\ IsTopThree(rec[r].topCategories, rec[r].categoryPreferences,
                      rec[r].activities, TRUE)
        /\ IsTopThree(rec[r].topSources, rec[r].sourcePreferences,
                      rec[r].activities, FALSE)

\* Four labels, the third and the fourth tied: the one met first is kept.
C5_Witness ==
    /\ rec[1].pc = "done" /\ rec[1].status = 200
    /\ Len(rec[1].categoryPreferences) = 4
    /\ rec[1].categoryPreferences[3][2] = rec[1].categoryPreferences[4][2]
    /\ rec[1].categoryPreferences[3][2] < rec[1].categoryPreferences[1][2]
    /\ rec[1].categoryPreferences[3][2] < rec[1].categoryPreferences[2][2]
    /\ rec[1].topCategories[3] = rec[1].categoryPreferences[3][1]

NoDuplicates(s) == \A i, j \in 1..Len(s) : i # j => s[i] # s[j]

\* C6: every label of the top lists is the label of an input activity, every
\* stored weight is non-negative, each list has at most 3 entries and no
\* label twice, and an empty activity set gives two empty lists.
C6_ListsComeFromInput ==
    \A r \in Answered :
        /\ Range(rec[r].topCategories)
             \subseteq {CategoryOf(user_activities[i]) : i \in OwnRows(r)}
        /\ Range(rec[r].topSources)
             \subseteq {SourceOf(user_activities[i]) : i \in OwnRows(r)}
        /\ \A i \in 1..Len(rec[r].categoryPreferences) :
              rec[r].categoryPreferences[i][2] >= 0
        /\ \A i \in 1..Len(rec[r].sourcePreferences) :
              rec[r].sourcePreferences[i][2] >= 0
        /\ Len(rec[r].topCategories) <= 3 /\ Len(rec[r].topSources) <= 3
        /\ NoDuplicates(rec[r].topCategories) /\ NoDuplicates(rec[r].topSources)
        /\ OwnRows(r) = {} => rec[r].topCategories = <<>> /\ rec[r].topSources = <<>>

\* A fourth source was met and left out; and a user whose only rows are old
\* or another user's gets empty lists.
C6_Witness ==
    /\ rec[1].pc = "done" /\ rec[1].status = 200
    /\ Len(rec[1].sourcePreferences) = 4
    /\ Len(rec[1].topSources) = 3

-----------------------------------------------------------------------------
(* Claims on exclusion, scores and order, under SpecScore *)

\* The articles the request's user has any activity row for.
InteractedInStorage(r) ==
    {user_activities[i].article_id :
        i \in {j \in 1..Len(user_activities) : user_activities[j].user_id = rec[r].user}}

\* C1: no article whose id is the article_id of any activity row of the user
\* (any kind, any age) is in the returned recommendations.
C1_InteractedNeverRecommended ==
    \A r \in Answered :
        \A k \in 1..Len(rec[r].recommendations) :
            rec[r].recommendations[k].id \notin InteractedInStorage(r)

\* 1-based position of x in top, 0 when absent.
Position(top, x) ==
    IF \E i \in 1..Len(top) : top[i] = x
    THEN CHOOSE i \in 1..Len(top) : top[i] = x /\ \A j \in 1..(i - 1) : top[j] # x
    ELSE 0

ContractCategoryPoints(category, top) ==
    CASE Position(top, category) = 1 -> 30
      [] Position(top, category) = 2 -> 20
      [] Position(top, category) = 3 -> 10
      [] OTHER -> 0

ContractSourcePoints(source, top) ==
    CASE Position(top, source) = 1 -> 15
      [] Position(top, source) = 2 -> 10
      [] Position(top, source) = 3 -> 5
      [] OTHER -> 0

\* What is left of a recommendation's score after the category and source points.
RecencyPart(r, a) ==
    a.score - ContractCategoryPoints(a.category, rec[r].topCategories)
            - ContractSourcePoints(a.source, rec[r].topSources)

\* C7: the category contribution is (3 - i) * 10 at 0-based rank i of the
\* top-categories list and 0 when absent, the source contribution (3 - i) * 5
\* likewise; with topCategories = [technology, sports, world] a sports
\* article gets categoryScore exactly 20.
C7_CategoryAndSourcePoints ==
    \A r \in Answered :
        \A k \in 1..Len(rec[r].recommendations) :
            LET a == rec[r].recommendations[k]
            IN  /\ CategoryScore(a, rec[r].topCategories)
                     = ContractCategoryPoints(a.category, rec[r].topCategories)
                /\ SourceScore(a, rec[r].topSources)
                     = ContractSourcePoints(a.source, rec[r].topSources)
                /\ RecencyPart(r, a) = Max(0, 24 - (rec[r].clock - a.published_at))
                /\ (/\ rec[r].topCategories = <<"technology", "sports", "world">>
                    /\ a.category = "sports")
                   => CategoryScore(a, rec[r].topCategories) = 20

C7_Witness ==
    /\ rec[1].pc = "done" /\ rec[1].status = 200
    /\ rec[1].topCategories = <<"technology", "sports", "world">>
    /\ \E k \in 1..Len(rec[1].recommendations) :
          /\ rec[1].recommendations[k].category = "sports"
          /\ rec[1].recommendations[k].source = "TechCrunch"
          /\ rec[1].recommendations[k].score = 20 + 15 + 15

\* C8: for every candidate and every publication timestamp storage can hold,
\* the recency contribution lies between 0 and 24 and is 0 for articles older
\* than 24 hours, so the total score lies between 0 and 69.
C8_RecencyAtMost24 ==
    \A r \in Answered :
        \A k \in 1..Len(rec[r].recommendations) :
            LET a == rec[r].recommendations[k]
            IN  /\ RecencyPart(r, a) >= 0 /\ RecencyPart(r, a) <= 24
                /\ rec[r].clock - a.published_at > 24 => RecencyPart(r, a) = 0
                /\ a.score >= 0 /\ a.score <= 69

PoolIndex(r, id) ==
    CHOOSE i \in 1..Len(rec[r].recentArticles) : rec[r].recentArticles[i].id = id

\* C9: the recommendations are in non-increasing order of total score, and
\* two candidates of equal score keep the relative order they had in the
\* candidate pool.
C9_OrderedByScoreStable ==
    \A r \in Answered :
        \A i, j \in 1..Len(rec[r].recommendations) :
            i < j =>
                /\ rec[r].recommendations[i].score >= rec[r].recommendations[j].score
                /\ rec[r].recommendations[i].score = rec[r].recommendations[j].score
                   => PoolIndex(r, rec[r].recommendations[i].id)
                        < PoolIndex(r, rec[r].recommendations[j].id)

\* Two recommendations of equal score and different age.
C9_Witness ==
    /\ rec[1].pc = "done" /\ rec[1].status = 200
    /\ Len(rec[1].recommendations) = 2
    /\ rec[1].recommendations[1].score = rec[1].recommendations[2].score
    /\ rec[1].recommendations[1].published_at > rec[1].recommendations[2].published_at

-----------------------------------------------------------------------------
(* Claims on the sizes of the pool and of the list, under SpecBulk *)

-----------------------------------------------------------------------------
(* Claims on search, under SpecSearch *)

SearchAnswered == search.pc = "done"

\* C3: for every search request and every requested top_k, 0 and negative
\* values included, the returned list has at most top_k items (no item when
\* top_k is not positive), on the match_news path and on the fallback path.
C3_AtMostTopK ==
    SearchAnswered /\ search.status = 200
    => Len(search.recommendations) <= Max(0, search.top_k)

\* The bound of C3 for the requests whose top_k is not negative.
C3_AtMostTopKWhenNotNegative ==
    SearchAnswered /\ search.status = 200 /\ search.top_k >= 0
    => Len(search.recommendations) <= search.top_k

\* The request carries no query, or one of whitespace only.
BlankQuery(body) ==
    \/ body.kind # "object"
    \/ ~body.query.present
    \/ \A i \in 1..Len(body.query.text) : body.query.text[i] \in Whitespace

\* C10: a search request whose query is missing, empty or of whitespace only,
\* a body that is not JSON included, is answered 200 with an empty list, and
\* the request calls neither the embedding provider nor match_news nor the
\* news_articles table.
C10_BlankQueryAnsweredEmpty ==
    SearchAnswered /\ BlankQuery(search.request)
    => /\ search.status = 200
       /\ search.error = ""
       /\ search.recommendations = <<>>
       /\ search.calls = <<>>

\* The answer of C10 for every blank request but the body null.
C10_BlankQueryOfABodyNotNull ==
    SearchAnswered /\ BlankQuery(search.request) /\ search.request.kind # "null"
    => /\ search.status = 200
       /\ search.error = ""
       /\ search.recommendations = <<>>
       /\ search.calls = <<>>

\* No blank request, the body null included, calls a backend.
C10_BlankQueryCallsNothing ==
    SearchAnswered /\ BlankQuery(search.request) => search.calls = <<>>

\* The calls of the search request that look for similar articles.
SimilaritySearches == {"rpc.match_news", "news_articles.select"}

\* C11: when obtaining the query embedding of a non-blank query fails (no API
\* key, or a provider response that is not ok) the response is 500 with an
\* error and a detail, and neither match_news nor the fallback query is
\* issued; in every request a similarity search comes only after the
\* embedding call has returned an embedding.
C11_EmbeddingFailureIsFatal ==
    SearchAnswered
    => /\ ~BlankQuery(search.request) => search.provider \in Providers
       /\ search.provider \in {"no key", "not ok"}
          => /\ search.status = 500
             /\ search.error # "" /\ search.detail # ""
             /\ search.recommendations = <<>>
             /\ Range(search.calls) \cap SimilaritySearches = {}
       /\ \A i \in 1..Len(search.calls) :
             search.calls[i] \in SimilaritySearches
             => /\ search.provider = "ok"
                /\ \E j \in 1..(i - 1) : search.calls[j] = "embeddings"

\* The provider answers a non-blank query with a response that is not ok,
\* over a table that has candidates.
C11_Witness ==
    /\ SearchAnswered
    /\ ~BlankQuery(search.request)
    /\ search.provider = "not ok"
    /\ search.status = 500
    /\ search.calls = <<"embeddings">>
    /\ Len(news_articles) >= 2

\* C12: once a query embedding was obtained, the fallback query is issued if
\* and only if match_news threw, returned an error or returned no row; a
\* non-empty array returned without error is the response, unchanged, and
\* the fallback query is not issued.
C12_FallbackIffRpcUnusable ==
    SearchAnswered /\ search.provider = "ok"
    => LET unusable == \/ search.rpc = "throws"
                       \/ search.rpcError
                       \/ Len(search.rpcData) = 0
       IN  /\ "rpc.match_news" \in Range(search.calls)
           /\ "news_articles.select" \in Range(search.calls) <=> unusable
           /\ ~unusable => /\ search.status = 200
                           /\ search.recommendations = search.rpcData

\* match_news returned two rows, and on another request none.
C12_Witness ==
    /\ SearchAnswered /\ search.provider = "ok" /\ search.rpc = "runs"
    /\ Len(search.rpcData) = 2
    /\ search.recommendations = search.rpcData
    /\ search.calls = <<"embeddings", "rpc.match_news">>

\* The response came from the in-memory scoring of the fallback path.
FromFallback == SearchAnswered /\ search.status = 200 /\ search.path = "fallback"

\* The stored row of an identifier.
RowOf(id) == news_articles[CHOOSE i \in 1..Len(news_articles) : news_articles[i].id = id]

\* The rows the fallback can rank: inside the 7-day window, with an embedding.
Rankable ==
    {i \in 1..Len(news_articles) :
        /\ news_articles[i].published_at >= search.clock - 7 * 24
        /\ ~news_articles[i].embedding.null}

\* The items of the fallback result: rows that carry an embedding, each
\* once, with the cosine similarity as score, in non-increasing order of score.
ScoredAndOrdered ==
    LET result == search.recommendations
    IN  /\ \A k \in 1..Len(result) :
              /\ \E i \in Rankable : news_articles[i].id = result[k].id
              /\ result[k].id # search.failing
                 => result[k].score
                      = CosineSimilarity(search.queryEmbedding,
                                         RowOf(result[k].id).embedding.vec)
        /\ \A k, l \in 1..Len(result) :
              k < l => result[k].id # result[l].id /\ result[k].score >= result[l].score

\* An article whose embedding is the query embedding scores 1 and comes
\* before an article of an orthogonal embedding, which scores 0.
IdenticalBeforeOrthogonal ==
    LET result == search.recommendations
    IN  \A k, l \in 1..Len(result) :
            /\ search.failing \notin {result[k].id, result[l].id}
            /\ RowOf(result[k].id).embedding.vec = search.queryEmbedding
            /\ Dot(RowOf(result[l].id).embedding.vec, search.queryEmbedding) = 0
            => result[k].score = 100 /\ result[l].score = 0 /\ k < l

\* C13: on the fallback path the result holds only candidates that carry an
\* array embedding (the others are skipped without error), is ordered by
\* non-increasing cosine similarity to the query embedding and is truncated
\* to top_k: it holds the top_k best candidates, or all of them when they are
\* fewer; an article identical to the query scores 1 and ranks before an
\* orthogonal one, which scores 0.
C13_FallbackScoring ==
    FromFallback
    => /\ ScoredAndOrdered
       /\ IdenticalBeforeOrthogonal
       /\ Len(search.recommendations)
            = IF Cardinality(Rankable) < Max(0, search.top_k)
              THEN Cardinality(Rankable) ELSE Max(0, search.top_k)

\* The statement of C13 for the requests whose top_k is not negative.
C13_FallbackScoringWhenNotNegative ==
    FromFallback /\ search.top_k >= 0
    => /\ ScoredAndOrdered
       /\ IdenticalBeforeOrthogonal
       /\ Len(search.recommendations)
            = IF Cardinality(Rankable) < search.top_k
              THEN Cardinality(Rankable) ELSE search.top_k

\* The identical and the orthogonal article of C13 are both in a result.
C13_Example ==
    /\ FromFallback /\ search.failing = 0
    /\ \E k, l \in 1..Len(search.recommendations) :
          /\ RowOf(search.recommendations[k].id).embedding.vec = search.queryEmbedding
          /\ search.recommendations[l].score = 0
    /\ \E i \in 1..Len(search.candidates) : search.candidates[i].embedding.null

\* cosineSimilarity threw for a candidate the fallback ranks.
OneCandidateFailed ==
    /\ SearchAnswered /\ search.path = "fallback"
    /\ \E i \in Rankable : news_articles[i].id = search.failing

\* The failure of one candidate leaves the response at 200 and the scores of
\* the other candidates at their cosine similarity.
FailureDoesNotAbort ==
    /\ search.status = 200
    /\ \A k \in 1..Len(search.recommendations) :
          search.recommendations[k].id # search.failing
          => search.recommendations[k].score
               = CosineSimilarity(search.queryEmbedding,
                                  RowOf(search.recommendations[k].id).embedding.vec)

\* C14: on the fallback path, when the similarity computation fails for one
\* candidate the request still completes with 200 and all other candidates
\* scored, and the failed candidate is the least similar: where it is in the
\* result, every candidate whose similarity was computed is there before it.
C14_FailedCandidateRanksLast ==
    OneCandidateFailed
    => /\ FailureDoesNotAbort
       /\ \A k \in 1..Len(search.recommendations) :
             search.recommendations[k].id = search.failing
             => \A i \in Rankable :
                   news_articles[i].id # search.failing
                   => \E l \in 1..(k - 1) :
                         search.recommendations[l].id = news_articles[i].id

\* The part of C14 on the response and on the other candidates.
C14_FailureDoesNotAbort == OneCandidateFailed => FailureDoesNotAbort

-----------------------------------------------------------------------------
(* Claims on the errors of generate-recommendations, under Spec *)

Responded == {r \in Reqs : rec[r].pc = "done"}

\* The credential of a request: its Authorization header without the scheme.
Credential(r) ==
    IF rec[r].header.text # <<>> /\ Head(rec[r].header.text) = "Bearer "
    THEN Tail(rec[r].header.text)
    ELSE rec[r].header.text

\* The credential is the token of a user and the auth backend says so.
Resolves(r) ==
    /\ ~rec[r].authError
    /\ \E u \in Users : Credential(r) = <<TokenOf(u)>>

\* C15: when the bearer credential of a request does not resolve to a user
\* (the auth backend returns an error or a null user) the response is 401
\* with error 'Unauthorized' and without recommendations.
C15_UnresolvedIsUnauthorized ==
    \A r \in Responded :
        ~rec[r].header.null /\ ~Resolves(r)
        => /\ rec[r].status = 401
           /\ rec[r].error = "Unauthorized"
           /\ rec[r].recommendations = <<>>
           /\ rec[r].calls = <<Call("auth.getUser", NoUser)>>

\* A stale token is refused while the tables hold rows of the users.
C15_Witness ==
    /\ rec[1].pc = "done"
    /\ rec[1].header = Header(<<"Bearer ", "token-stale">>)
    /\ ~rec[1].authError
    /\ rec[1].status = 401
    /\ Len(user_activities) > 0

\* C16: a request without an Authorization header is an authentication
\* failure: it is answered 401, not 500 or 200.
C16_NoHeaderIsUnauthorized ==
    \A r \in Responded : rec[r].header.null => rec[r].status = 401

\* One of the storage queries of the request failed.
QueryFailed(r) ==
    rec[r].activitiesError \/ rec[r].articlesError \/ rec[r].interactedNull

\* C17: when a backend query of an authenticated request fails (the 30-day
\* activities query, the candidate articles query or the interacted-ids
\* query) the response is 500 and carries no recommendations list.
C17_QueryFailureIs500 ==
    \A r \in Responded :
        rec[r].user # NoUser /\ QueryFailed(r)
        => rec[r].status = 500 /\ rec[r].recommendations = <<>>

\* The statement of C17 for the two queries whose error the handler reads.
C17_CheckedQueryFailureIs500 ==
    \A r \in Responded :
        rec[r].user # NoUser /\ (rec[r].activitiesError \/ rec[r].articlesError)
        => rec[r].status = 500 /\ rec[r].recommendations = <<>>

-----------------------------------------------------------------------------
(* Claims on the three functions, under SpecService *)

\* The stored articles inside the 7-day window of a recommendation request.
InWindow(r) ==
    {i \in 1..Len(news_articles) :
        news_articles[i].published_at >= rec[r].clock - 7 * 24}

\* A user without activities gets a 200 with empty top lists, and an empty
\* pool gives an empty list.
PartialRecommendations ==
    \A r \in Responded :
        rec[r].user # NoUser /\ ~QueryFailed(r)
        => /\ rec[r].status = 200 /\ rec[r].error = ""
           /\ OwnRows(r) = {}
              => rec[r].topCategories = <<>> /\ rec[r].topSources = <<>>
           /\ InWindow(r) = {} => rec[r].recommendations = <<>>

\* A fallback pool without candidates, or without a candidate that carries
\* an embedding, gives a 200 with an empty list.
PartialSearch ==
    /\ SearchAnswered
    /\ "news_articles.select" \in Range(search.calls)
    /\ ~search.candidatesError
    /\ Rankable = {}
    => /\ search.status = 200 /\ search.error = ""
       /\ search.recommendations = <<>>

\* C18: partial data is answered 200 with a valid, possibly empty, result
\* and never with an error: no activities give recommendations with empty
\* top_categories and top_sources, an empty pool gives an empty
\* recommendations list, and a search fallback pool without candidates or
\* without a candidate that carries an embedding gives an empty list.
C18_PartialDataIsNotAnError == PartialRecommendations /\ PartialSearch

\* A user without activities asked over a table whose one article is in the
\* window, and the fallback found that article without an embedding.
C18_Witness ==
    /\ rec[1].pc = "done" /\ rec[1].status = 200
    /\ user_activities = <<>>
    /\ rec[1].topCategories = <<>>
    /\ Len(rec[1].recommendations) = 1
    /\ SearchAnswered /\ search.path = "fallback"
    /\ Len(search.candidates) = 1
    /\ search.recommendations = <<>>

\* No call occurs twice among the calls of a request.
IssuedOnce(calls) == \A i, j \in 1..Len(calls) : i < j => calls[i] # calls[j]

\* C19: within one request no external call is made twice, whatever the
\* calls return: a search request calls the embedding provider, match_news
\* and the fallback query at most once each, a news-fetch request calls the
\* news API at most once, a recommendation request issues each of its
\* storage queries at most once.
C19_NoCallIsRetried ==
    /\ \A r \in Reqs : IssuedOnce(rec[r].calls)
    /\ IssuedOnce(search.calls)
    /\ Range(search.calls) \subseteq {"embeddings"} \cup SimilaritySearches
    /\ IssuedOnce(fetch.calls)
    /\ Range(fetch.calls) \subseteq {"newsapi"}

\* The three requests have made all the calls they can make.
C19_Witness ==
    /\ Len(rec[1].calls) = 4
    /\ search.calls = <<"embeddings", "rpc.match_news", "news_articles.select">>
    /\ search.status = 500
    /\ fetch.calls = <<"newsapi">> /\ fetch.status = 500

-----------------------------------------------------------------------------
(* Claims on two requests at a time, under SpecPair *)

\* The list and the preferences a request returned.
Returned(r) ==
    <<rec[r].recommendations, rec[r].topCategories, rec[r].topSources>>

\* C20: requests share no mutable state: two recommendation requests run,
\* among other requests, against the same content of the tables, for the
\* same user and at the same clock value return the same ordered
\* recommendations list and the same user_preferences.  (A response waits to
\* be read while the tables keep their content, so two responses that wait
\* together were computed from the same content.)
C20_SameInputsSameAnswer ==
    \A r1, r2 \in Answered :
        rec[r1].user = rec[r2].user /\ rec[r1].clock = rec[r2].clock
        => Returned(r1) = Returned(r2)

\* The statement of C20 for two requests whose interacted-ids query fared alike.
C20_SameAnswerWhenQueriesFareAlike ==
    \A r1, r2 \in Answered :
        /\ rec[r1].user = rec[r2].user /\ rec[r1].clock = rec[r2].clock
        /\ rec[r1].interactedNull = rec[r2].interactedNull
        => Returned(r1) = Returned(r2)

-----------------------------------------------------------------------------
(* fetch-news: what a response holds *)

FetchAnswered == fetch.pc = "done"

Removed == <<"[", "R", "e", "m", "o", "v", "e", "d", "]">>

\* An upstream entry with a title, a description and a url whose title is
\* not the sentinel.
Complete(entry) ==
    /\ Len(entry.title) > 0
    /\ Len(entry.description) > 0
    /\ Len(entry.url) > 0
    /\ entry.title # Removed

\* The article of a response is made of this upstream entry.
MadeOf(article, entry) ==
    /\ article.title = entry.title
    /\ article.url = entry.url
    /\ article.summary = entry.description
    /\ article.source = entry.source.name
    /\ article.published_at = entry.publishedAt

FetchFailure ==
    \/ ~fetch.apiKey
    \/ fetch.upstream # "ok"
    \/ \E i \in 1..Len(fetch.received) :
           Complete(fetch.received[i]) /\ fetch.received[i].source.null

\* C21: a 200 response of fetch-news lists exactly the upstream entries with a
\* non-empty title, description and url and a title other than '[Removed]',
\* in upstream order, and its total is the length of the list; a missing API
\* key, a non-2xx upstream response, an upstream status other than 'ok' and an
\* exception each give 500 without an articles list; with the key missing the
\* news API is not called.
C21_FetchNewsResponse ==
    FetchAnswered =>
        LET complete == SelectSeq(fetch.received, Complete)
        IN  /\ fetch.status \in {200, 500}
            /\ fetch.status = 500 <=> FetchFailure
            /\ fetch.status = 200 =>
                   /\ Len(fetch.articles) = Len(complete)
                   /\ \A i \in 1..Len(complete) : MadeOf(fetch.articles[i], complete[i])
                   /\ fetch.total = Len(fetch.articles)
                   /\ fetch.error = ""
            /\ fetch.status = 500 =>
                   /\ fetch.articles = <<>>
                   /\ fetch.error # ""
            /\ ~fetch.apiKey => fetch.calls = <<>>

\* A 200 response that lists two of four upstream entries, the sentinel entry
\* and the entry without a description left out.
C21_Witness ==
    /\ FetchAnswered
    /\ fetch.status = 200
    /\ Len(fetch.received) = 4
    /\ \E i \in 1..4 : fetch.received[i].title = Removed
    /\ \E i \in 1..4 : fetch.received[i].description = <<>>
    /\ Len(fetch.articles) = 2

-----------------------------------------------------------------------------
(* Claims on the SearchBar, under SpecBar *)

\* onSearch was called with this query and the search endpoint was posted it.
Searched(query) ==
    /\ \E i \in 1..Len(bar.calls) : bar.calls[i] = [op |-> "onSearch", query |-> query]
    /\ \E i \in 1..Len(bar.calls) : bar.calls[i] = [op |-> "bert_search", query |-> query]

\* C22: once the form is submitted with a non-empty query, the search endpoint
\* is eventually posted the query and the parent's onSearch eventually
\* receives it.
C22_SubmitReachesSearch ==
    \A query \in Typed \ {<<>>} :
        (query \in bar.submitted) ~> Searched(query)

\* Whatever the user does, the component calls neither.
C22_NothingIsCalled == bar.calls = <<>>

\* A non-empty query was submitted and the handler threw.
C22_SubmittedAndThrew == (bar.submitted \ {<<>>}) # {} /\ bar.prevented /\ bar.threw

-----------------------------------------------------------------------------
(* Claims on the NewsCard, under SpecCard *)

\* C23: every write of the card against user_activities changes one row: an
\* insert that is applied adds exactly one row and the delete of a bookmark
\* removes at most one row, whatever the table holds.
C23_SingleRowWrites ==
    \A i \in 1..Len(card.writes) :
        /\ card.writes[i].op = "insert" /\ card.writes[i].outcome = "ok"
               => card.writes[i].rows = 1
        /\ card.writes[i].op = "delete" => card.writes[i].rows <= 1

\* The half of C23 on inserts.
C23_InsertsAreSingleRow ==
    \A i \in 1..Len(card.writes) :
        card.writes[i].op = "insert" =>
            card.writes[i].rows = IF card.writes[i].outcome = "ok" THEN 1 ELSE 0

\* C27: for a mounted card of a logged-in user that started with no bookmark
\* row in storage, isBookmarked is true exactly when storage holds a bookmark
\* row of that user on that article, also after a failed insert or delete.
C27_FlagMatchesStorage ==
    (card.mounted /\ card.user # NoUser /\ card.startedClean) =>
        (card.isBookmarked <=>
            RowsOf(user_activities, card.user, card.article.id, "bookmark") # <<>>)

\* A bookmark click whose write was applied has run on such a card.
C27_ClickedOnCleanCard ==
    /\ card.mounted /\ card.user # NoUser /\ card.startedClean
    /\ card.writes # <<>>
    /\ card.writes[1].outcome = "ok"
    /\ card.writes[1].op \in {"delete"} \/ card.isBookmarked

\* The time the card that has left the screen was shown for, in half seconds.
Shown == card.left - card.shownAt

\* C30: a card of a logged-in user that leaves the screen after more than 2
\* seconds has recorded exactly one dwell activity with the elapsed seconds,
\* and no dwell activity of 2 seconds or less is ever recorded.
C30_DwellRecordedOnUnmount ==
    LET dwells == RowsOf(user_activities, card.user, card.article.id, "dwell")
    IN  /\ ( /\ ~card.mounted
             /\ card.user # NoUser
             /\ Shown > 4
             /\ \A i \in 1..Len(card.writes) : card.writes[i].outcome = "ok" )
            => /\ Len(dwells) = card.dwellsAtMount + 1
               /\ dwells[Len(dwells)].dwell_time \in {Shown \div 2, RoundSeconds(Shown)}
        /\ \A i \in 1..Len(user_activities) :
               user_activities[i].activity_type = "dwell"
                   => user_activities[i].dwell_time > 2

\* The half of C30 on short dwells.
C30_NoShortDwell ==
    \A i \in 1..Len(user_activities) :
        user_activities[i].activity_type = "dwell" => user_activities[i].dwell_time > 2

\* A dwell activity has been recorded.
C30_DwellRecorded ==
    \E i \in 1..Len(user_activities) : user_activities[i].activity_type = "dwell"

\* A card shown for more than 2 seconds, whose user never changed, has left.
C30_LeftAfterThreeSeconds ==
    ~card.mounted /\ card.user = "u1" /\ Shown > 4 /\ card.effect.dwellStartTime = 0

-----------------------------------------------------------------------------
(* Claims on cards and recommendations, under SpecReader *)

\* The articles the user of the answered request has a view row on.
Viewed ==
    {user_activities[i].article_id :
        i \in {j \in 1..Len(user_activities) :
                   /\ user_activities[j].user_id = rec[1].user
                   /\ user_activities[j].activity_type = "view"}}

Recommended == {rec[1].recommendations[k].id : k \in 1..Len(rec[1].recommendations)}

\* C25: once a card has stored the view of an article for a logged-in user, no
\* later recommendation response of that user lists the article, also after a
\* bookmark on it has been removed.
C25_ViewedNeverRecommended ==
    (rec[1].pc = "done" /\ rec[1].status = 200) => Viewed \cap Recommended = {}

\* The same, for the requests whose interacted-ids query answered.
C25_ViewedExcludedWhenQueryAnswers ==
    (rec[1].pc = "done" /\ rec[1].status = 200 /\ ~rec[1].interactedNull)
        => Viewed \cap Recommended = {}

\* Removing a bookmark leaves the view rows in storage.
C25_DeleteKeepsViews ==
    [][\A i \in 1..Len(user_activities) :
           user_activities[i].activity_type = "view"
               => \E j \in 1..Len(user_activities') :
                      user_activities'[j] = user_activities[i]]_vars

\* A response after a view was stored and the only bookmark row was removed.
C25_AnsweredAfterBookmarkRemoved ==
    /\ rec[1].pc = "done" /\ rec[1].status = 200 /\ ~rec[1].interactedNull
    /\ Viewed # {}
    /\ Recommended # {}
    /\ card.writes = <<WriteOf("delete", "ok", 1)>>

-----------------------------------------------------------------------------
(* Claims on the NewsFeed, under SpecFeed and SpecPicks *)

\* C26: once every call of fetchArticles has completed, the list on display is
\* the one computed with the latest filters and searchQuery, and loading is
\* true whenever a call is in flight.
C26_LatestFiltersWin ==
    /\ (feed.inFlight = <<>> /\ feed.latestOutcome = "ok")
           => feed.articles = Filtered(TransformedArticles(Published), feed.filters,
                                       feed.searchQuery, now)
    /\ feed.inFlight # <<>> => feed.loading

\* The call made last was answered before an earlier one.
C26_Overtaken ==
    /\ Len(feed.inFlight) = 1
    /\ ~feed.inFlight[1].latest
    /\ feed.latestOutcome = "ok"
    /\ ~feed.loading

\* When the call made last is also the last to complete, the list is that of
\* the latest filters.
C26_LatestCompletesLast ==
    [][(/\ Len(feed.inFlight) = 1
        /\ feed.inFlight[1].latest
        /\ feed'.inFlight = <<>>
        /\ feed'.latestOutcome = "ok")
           => /\ feed'.articles = Filtered(TransformedArticles(Published), feed'.filters,
                                           feed'.searchQuery, now)
              /\ ~feed'.loading]_vars

\* C29: at most one generate-recommendations request is in flight;
\* loadingRecommendations is true exactly while one is and false once it has
\* completed, in success and in failure; a failed request leaves the
\* recommendations as they were; once a non-empty list is stored, a click on
\* 'AI Picks' issues no request.
C29_OneRequestAtATime ==
    /\ [](/\ feed.recInFlight <= 1
          /\ feed.loadingRecommendations <=> feed.recInFlight = 1)
    /\ [][/\ ( /\ feed'.recInFlight < feed.recInFlight
               /\ feed'.toast = "Failed to generate recommendations" )
              => feed'.recommendations = feed.recommendations
          /\ feed'.recInFlight < feed.recInFlight => ~feed'.loadingRecommendations
          /\ feed.recommendations # <<>> => feed'.recInFlight <= feed.recInFlight]_vars

\* A non-empty list is on display after a request that failed and one that
\* succeeded.
C29_Witness ==
    /\ feed.showRecommendations
    /\ feed.recommendations # <<>>
    /\ feed.recInFlight = 0
    /\ ~feed.loadingRecommendations
    /\ feed.toast = "Found personalized articles for you!"

-----------------------------------------------------------------------------
(* Claims on who a recommendation request reads, under Spec *)

\* The user the credential of the request belongs to.
ResolvedUser(r) == CHOOSE u \in Users : Credential(r) = <<TokenOf(u)>>

\* The positions of the table queries among the calls of the request.
TableQueries(r) ==
    {i \in 1..Len(rec[r].calls) : rec[r].calls[i].op # "auth.getUser"}

\* C24: a recommendation request queries user_activities and news_articles
\* only after its bearer token was resolved to a user, and not at all when the
\* resolution fails; each of its user_activities queries is restricted to the
\* id of that user, and so are the rows it reads.
C24_QueriesFollowAuth ==
    \A r \in Responded :
        /\ TableQueries(r) # {} =>
               /\ rec[r].calls[1] = Call("auth.getUser", NoUser)
               /\ 1 \notin TableQueries(r)
               /\ ~rec[r].header.null
               /\ Resolves(r)
        /\ \A i \in TableQueries(r) :
               rec[r].calls[i].op \in {"user_activities.select",
                                       "user_activities.select_article_id"}
                   => rec[r].calls[i].user_id = ResolvedUser(r)
        /\ \A k \in 1..Len(rec[r].activities) :
               rec[r].activities[k].user_id = ResolvedUser(r)
        /\ rec[r].interactedIds \subseteq
               {user_activities[i].article_id :
                    i \in {j \in 1..Len(user_activities) :
                               user_activities[j].user_id = rec[r].user}}

\* A request of u1 that ran all its queries while storage held a row of u2,
\* and read rows of its own.
C24_Witness ==
    /\ rec[1].pc = "done"
    /\ rec[1].status = 200
    /\ Len(rec[1].calls) = 4
    /\ rec[1].user = "u1"
    /\ rec[1].activities # <<>>
    /\ \E i \in 1..Len(user_activities) : user_activities[i].user_id = "u2"

\* C28: in one response of fetch-news, two articles have the same id exactly
\* when they have the same url.
C28_IdsTellUrlsApart ==
    (FetchAnswered /\ fetch.status = 200) =>
        \A i, j \in 1..Len(fetch.articles) :
            fetch.articles[i].id = fetch.articles[j].id
                <=> fetch.articles[i].url = fetch.articles[j].url

\* The half of C28 on equal urls, and the form of the id.
C28_SameUrlSameId ==
    (FetchAnswered /\ fetch.status = 200) =>
        \A i, j \in 1..Len(fetch.articles) :
            /\ fetch.articles[i].url = fetch.articles[j].url
                   => fetch.articles[i].id = fetch.articles[j].id
            /\ Len(fetch.articles[i].id) <= 20
            /\ fetch.articles[i].id = Alphanumeric(fetch.articles[i].id)

=============================================================================
